---- MODULE Spec2Model ----
(***************************************************************************)
(* feotweet: the incremental sync engine that mirrors Twitter timelines    *)
(* into FeoBlog (main, syncHomeTimeline, syncUserTimeline), together with  *)
(* the paginated timeline generators of the Twitter client it pulls from.  *)
(***************************************************************************)
EXTENDS Integers, Sequences, FiniteSets, TLC

(***************************************************************************)
(* Bounds of the model.                                                    *)
(***************************************************************************)
\* Number of tweets in the upstream.
MaxFeedLen == 3
\* Tweets are created at times 1..MaxTs (created_at, parsed by Date.parse).
MaxTs == 2
\* Tweets per page (the "count" request parameter, 200 in the program).
PageSize == 2
\* Attachments one rendering can collect.
MaxAttachments == 1
\* The --maxTweets option ranges over 0..MaxMaxTweets.
MaxMaxTweets == 2
\* The count of one tweet's writes to one blog stops at MaxWrites.
MaxWrites == 2

(***************************************************************************)
(* Program constants.                                                      *)
(***************************************************************************)
\* const maxTweets = 5000 in syncUserTimeline.
UserMaxTweets == 5000

\* null / undefined for values that are otherwise numbers.
NoTimestamp == -1
NoMaxID == 0
NoTweet == 0
\* undefined for values that are otherwise records.
Null == [null |-> TRUE]

Min(a, b) == IF a < b THEN a ELSE b

(***************************************************************************)
(* Upstream content.  A tweet of the upstream is [created_at, kind]; its   *)
(* position in `upstream` is its id_str, so that a larger ID is a newer    *)
(* tweet.  TweetJSON gives the JSON the API returns for it.                *)
(***************************************************************************)
Kinds == {"plain", "skip", "prot", "deep"}

UserJSON(screen_name, protected) ==
    [screen_name |-> screen_name, protected |-> protected]

Nested(user, rt, qt) ==
    [id_str |-> NoTweet, created_at |-> 1, user |-> user,
     retweeted_status |-> rt, quoted_status |-> qt]

\* The JSON of upstream tweet `id`, whose descriptor is `t`:
\*   plain  a tweet by @amy (public);
\*   skip   a tweet by @Sid (public), quoting a public tweet of @amy;
\*   prot   a tweet by @pat, whose account is protected;
\*   deep   a tweet by @amy quoting @Sid's retweet of a tweet by @pat.
TweetJSON(id, t) ==
    LET amy == UserJSON("amy", FALSE)
        sid == UserJSON("Sid", FALSE)
        pat == UserJSON("pat", TRUE)
        base == [id_str |-> id, created_at |-> t.created_at, user |-> amy,
                 retweeted_status |-> Null, quoted_status |-> Null]
    IN  CASE t.kind = "plain" -> base
          [] t.kind = "skip" ->
                [base EXCEPT !.user = sid,
                             !.quoted_status = Nested(amy, Null, Null)]
          [] t.kind = "prot" -> [base EXCEPT !.user = pat]
          [] t.kind = "deep" ->
                [base EXCEPT !.quoted_status =
                    Nested(sid, Nested(pat, Null, Null), Null)]

\* A comparison of screen names as they are written.
SameCase(s) == s

\* String.toLowerCase on the screen names of the model.
ToLowerCase(s) ==
    CASE s = "Sid" -> "sid"
      [] s = "SID" -> "sid"
      [] OTHER -> s

(***************************************************************************)
(* class Tweet / class User                                                *)
(***************************************************************************)
UserIsPublic(user) == ~user.protected

\* An isPublic that looks at the tweets nested directly in this one, and not
\* at what those retweet or quote.
IsPublicOneLevel(json) ==
    /\ json.quoted_status # Null => UserIsPublic(json.quoted_status.user)
    /\ json.retweeted_status # Null
        => UserIsPublic(json.retweeted_status.user)
    /\ UserIsPublic(json.user)

RECURSIVE IsPublic(_)
IsPublic(json) ==
    IF json.quoted_status # Null /\ ~IsPublic(json.quoted_status) THEN FALSE
    ELSE IF json.retweeted_status # Null /\ ~IsPublic(json.retweeted_status)
         THEN FALSE
    ELSE UserIsPublic(json.user)

Timestamp(json) == json.created_at

\* A comparator that sorts newest first: what the batch's order would be if
\* the operands were subtracted the other way round.
SortByTimestampDescending(a, b) == Timestamp(b) - Timestamp(a)

\* Tweet.sortByTimestamp(a, b): negative when a sorts before b.
SortByTimestamp(a, b) == Timestamp(a) - Timestamp(b)

(***************************************************************************)
(* State.                                                                  *)
(***************************************************************************)
VARIABLES
    upstream,       \* the tweets of Twitter, oldest first; index = id_str
    preexisting,    \* per identity: timestamp of a POST already in its blog
    store,          \* per identity and tweet: times putItem has stored it
    pc,             \* where main() is: "idle" when no process is running
    cur,            \* index in Timelines of the identity being synced
    maxTweets,      \* options.maxTweets, as read by syncHomeTimeline
    copyAttachments,\* timeline.copyAttachments of the user timeline
    lastTimestamp,  \* the watermark read by getLatestTimestamp
    maxID,          \* the generator's cursor
    page,           \* the generator's current page (tweet ids)
    pageIdx,        \* index in page of the next tweet the generator looks at
    newTweets,      \* the batch (tweet ids)
    index,          \* index in newTweets of the tweet being copied
    attachments,    \* attachments of the collector still to be PUT
    error,          \* the error main() was rejected with, or Null
    \* history, for stating the properties:
    ran,            \* identities whose sync was started by this invocation
    outcome,        \* how the last invocation ended
    completed,      \* per identity: its most recent run returned normally
    prevDone,       \* completed[Who], as it was when the current run started
    runWrites,      \* tweets stored by the current run, in order
    stopAt          \* the tweet at which the current run stopped streaming

\* One collect() scope of an attachment collector, and the rendering of one
\* tweet under it (priv/attachments.ts, Tweet.toHTML).
VARIABLES
    scope,          \* the collector collect() was called on, or "none"
    collector,      \* options.attachments of the toHTML call in progress
    level,          \* depth of that toHTML call: 1 is the tweet of the item
    collected,      \* Attachments._attachments
    tmpFiles,       \* the temp files that exist
    nextTmp,        \* number of temp files made so far
    cpc,            \* where the scope is
    pending,        \* the URL being added, then the Attachment made from it
    thrown,         \* the error collect() was rejected with, or Null
    \* history, for stating the properties:
    calls,          \* the tryAddURL calls that have ended, in order
    fetches         \* the fetches issued: [url, level]

\* One generator of Client.homeTimeline() / Client.userTimeline(), read by a
\* consumer that never leaves its loop.
VARIABLES
    streamOf,       \* "home" or "user": the timeline streamed
    sMaxID,         \* maxID of the generator
    sPage,          \* the page the generator holds (tweet ids)
    sIdx,           \* index in sPage of the next tweet it looks at
    spc,            \* "idle", "fetch" (about to fetch), "page", "done"
    \* history, for stating the properties:
    sPrevPage,      \* the page fetched before sPage
    sent,           \* max_id of the latest request
    yielded         \* what the generator has yielded, in order

\* One call of Client.get(url) and the wall clock.
VARIABLES
    gpc,            \* "idle", "fetch", "await", "delay", "returned", "thrown"
    now,            \* new Date().valueOf(), in ms
    wakeAt,         \* when the pending delay(waitMs) resolves
    \* history, for stating the properties:
    requests,       \* number of fetch(url) calls issued
    limited,        \* number of 429 responses with no calls remaining
    earliest,       \* limitResetMS of the latest such response
    response,       \* the latest response: "none", "ok", "limited", "bad"
    result          \* its status and rate-limit headers

\* One application of a function of class Tweet to an argument.
VARIABLES
    input,          \* the argument
    output,         \* the value returned
    applied         \* "none", or the name of the function applied

\* Sync runs of the identities as interleaved processes.
VARIABLES
    ppc,            \* each run's position: "idle", "stream", "copy",
                    \* "done", "failed"
    pPos,           \* how many tweets each run's loop has been given
    pLast,          \* each run's lastTimestamp
    pBatch,         \* each run's newTweets
    pIndex,         \* each run's index in its newTweets
    pWrites         \* each identity's store writes, in order

\* The callback of syncUserTimeline under one collect() scope.
VARIABLES
    item,           \* what toItem returned: the files of its post
    puts            \* the PUT requests made, in order

\* main() from loadConfig on, one step per timeline of the config.
VARIABLES
    advanced        \* the timelines synced: each one's place and userID

syncVars == <<upstream, preexisting, store, pc, cur, maxTweets, copyAttachments,
              lastTimestamp, maxID, page, pageIdx, newTweets, index,
              attachments, error, ran, outcome, completed, prevDone,
              runWrites, stopAt>>
collectVars == <<scope, collector, level, collected, tmpFiles, nextTmp, cpc,
                 pending, thrown, calls, fetches>>
streamVars == <<streamOf, sMaxID, sPage, sIdx, spc, sPrevPage, sent,
                yielded>>
getVars == <<gpc, now, wakeAt, requests, limited, earliest, response,
             result>>

applyVars == <<input, output, applied>>
parVars == <<ppc, pPos, pLast, pBatch, pIndex, pWrites>>
publishVars == <<item, puts>>
configVars == <<advanced>>
otherVars == <<applyVars, parVars, publishVars, configVars>>

vars == <<syncVars, collectVars, streamVars, getVars, otherVars>>

\* What the sync engine's steps leave alone.
elsewhere == <<collectVars, streamVars, getVars, otherVars>>

\* The destination identities, in the order main() syncs them: the home
\* timeline, then config.twitter.userTimelines.
Timelines == <<"home", "user">>
Identities == {Timelines[i] : i \in 1..Len(Timelines)}
\* timeline.twitterScreenName of the user timeline.
TwitterScreenName == "amy"
\* config.twitter.homeTimeline.skipUsers
SkipUsersConfig == {"SID"}

TweetIDs == 1..Len(upstream)
Tweet(id) == TweetJSON(id, upstream[id])

(***************************************************************************)
(* The Twitter API (external): timelines are newest first, and max_id is   *)
(* inclusive: a page may start with the tweet whose ID is max_id.          *)
(***************************************************************************)
HomeTimelineAPI ==
    [i \in 1..Len(upstream) |-> Len(upstream) - i + 1]

UserTimelineAPI(screenName) ==
    LET ByUser(id) == Tweet(id).user.screen_name = screenName
    IN  SelectSeq(HomeTimelineAPI, ByUser)

TimelineAPI(who) ==
    IF who = "home" THEN HomeTimelineAPI ELSE UserTimelineAPI(TwitterScreenName)

\* getFeedPage / getUserTimeline: GET with max_id (when set) and count.
GetPage(timeline, max_id) ==
    LET AtOrBefore(id) == max_id = NoMaxID \/ id <= max_id
        older == SelectSeq(timeline, AtOrBefore)
    IN  SubSeq(older, 1, Min(PageSize, Len(older)))

(***************************************************************************)
(* FeoBlog (external): the items of one identity, newest first.  Every     *)
(* blog holds a PROFILE item; its POST items are the preexisting one and   *)
(* the tweets stored by putItem.                                           *)
(***************************************************************************)
Entry(ts, type) == [timestamp_ms_utc |-> ts, item_type |-> type]

Entries(who) ==
    {Entry(MaxTs + 1, "PROFILE")}
    \cup (IF preexisting[who] = NoTimestamp THEN {}
          ELSE {Entry(preexisting[who], "POST")})
    \cup {Entry(Timestamp(Tweet(id)), "POST") : id \in {i \in TweetIDs : store[who][i] > 0}}

RECURSIVE NewestFirst(_)
NewestFirst(entries) ==
    IF entries = {} THEN <<>>
    ELSE LET e == CHOOSE x \in entries :
                    \A y \in entries : y.timestamp_ms_utc <= x.timestamp_ms_utc
         IN  <<e>> \o NewestFirst(entries \ {e})

GetUserItems(who) == NewestFirst(Entries(who))

\* A watermark reader that does not stop at the first POST entry and so ends
\* with the timestamp of the last (oldest) one.
RECURSIVE GetOldestTimestamp(_)
GetOldestTimestamp(entries) ==
    IF entries = <<>> THEN NoTimestamp
    ELSE LET rest == GetOldestTimestamp(Tail(entries))
         IN  IF rest # NoTimestamp THEN rest
             ELSE IF Head(entries).item_type = "POST"
                  THEN Head(entries).timestamp_ms_utc
             ELSE NoTimestamp

\* A watermark reader that takes the first entry whatever its type.
GetFirstTimestamp(entries) ==
    IF entries = <<>> THEN NoTimestamp
    ELSE Head(entries).timestamp_ms_utc

\* getLatestTimestamp: the timestamp of the first POST entry, or null.
RECURSIVE GetLatestTimestamp(_)
GetLatestTimestamp(entries) ==
    IF entries = <<>> THEN NoTimestamp
    ELSE IF Head(entries).item_type # "POST"
         THEN GetLatestTimestamp(Tail(entries))
    ELSE Head(entries).timestamp_ms_utc

(***************************************************************************)
(* The loop bodies of syncHomeTimeline and syncUserTimeline.               *)
(***************************************************************************)
Who == Timelines[cur]

\* `lastTimestamp && ...`: null and 0 are falsy.
Truthy(n) == n # NoTimestamp /\ n # 0

\* A watermark test that lets a tweet at exactly the watermark through.
BeforeWatermark(json, last) == Truthy(last) /\ Timestamp(json) < last

\* lastTimestamp && tweet.timestamp <= lastTimestamp
AtOrBeforeWatermark(json, last) == Truthy(last) /\ Timestamp(json) <= last

\* new Set(skipUsers.map(name => name.toLowerCase()))
SkipUsers == {ToLowerCase(name) : name \in SkipUsersConfig}

\* skipUsers.has(tweet.user.json.screen_name.toLowerCase())
IsSkipped(json) == ToLowerCase(json.user.screen_name) \in SkipUsers

\* newTweets.length >= max
CapReached(batch, max) == Len(batch) >= max

\* A loop body that passes over a tweet at or before the watermark and reads
\* on, instead of leaving the loop.
HomeLoopBodySkipping(json, last) ==
    IF ~IsPublic(json) THEN "continue"
    ELSE IF IsSkipped(json) THEN "continue"
    ELSE IF Truthy(last) /\ Timestamp(json) <= last THEN "continue"
    ELSE "push"

\* What one iteration of the for-await loop does with a yielded tweet:
\* "continue", "break" (at the watermark), or "push".
HomeLoopBody(json, last) ==
    IF ~IsPublic(json) THEN "continue"
    ELSE IF IsSkipped(json) THEN "continue"
    ELSE IF AtOrBeforeWatermark(json, last) THEN "break"
    ELSE "push"

UserLoopBody(json, last) ==
    IF AtOrBeforeWatermark(json, last) THEN "break"
    ELSE "push"

LoopBody(who, json, last) ==
    IF who = "home" THEN HomeLoopBody(json, last) ELSE UserLoopBody(json, last)

\* options.maxTweets for the home timeline, the constant for a user timeline.
MaxTweetsOf(who) == IF who = "home" THEN maxTweets ELSE UserMaxTweets

\* The comparator of newTweets.sort(Tweet.sortByTimestamp), on tweet ids.
CompareTweets(a, b) == SortByTimestamp(Tweet(a), Tweet(b))

\* An insertion that keeps one tweet per timestamp.
RECURSIVE InsertSortedNoTies(_, _)
InsertSortedNoTies(x, sorted) ==
    IF sorted = <<>> THEN <<x>>
    ELSE IF CompareTweets(Head(sorted), x) = 0 THEN sorted
    ELSE IF CompareTweets(Head(sorted), x) < 0
         THEN <<Head(sorted)>> \o InsertSortedNoTies(x, Tail(sorted))
    ELSE <<x>> \o sorted

\* Array.prototype.sort(compare): a stable sort, as an insertion sort.
RECURSIVE InsertSorted(_, _)
InsertSorted(x, sorted) ==
    IF sorted = <<>> THEN <<x>>
    ELSE IF CompareTweets(Head(sorted), x) <= 0
         THEN <<Head(sorted)>> \o InsertSorted(x, Tail(sorted))
    ELSE <<x>> \o sorted

RECURSIVE ArraySort(_)
ArraySort(seq) ==
    IF seq = <<>> THEN <<>>
    ELSE InsertSorted(seq[Len(seq)], ArraySort(SubSeq(seq, 1, Len(seq) - 1)))

SortNewTweets(batch) == ArraySort(batch)

(***************************************************************************)
(* Errors.  An error is [names, wrapped, step]: the tweet its message      *)
(* names (NoTweet when none), whether errorContext produced it, and the    *)
(* step that threw.                                                        *)
(***************************************************************************)
Steps == {"fetch", "toItem", "putItem", "putAttachment"}

RawError(step, names) == [names |-> names, wrapped |-> FALSE, step |-> step]

\* new Exception(message, cause): with a cause, the message becomes the
\* template literal `message\n${cause}`, the text "message" followed by the
\* cause, so that the text passed in is dropped.
Exception(message, cause) ==
    [names |-> IF cause # Null THEN cause.names ELSE message,
     wrapped |-> TRUE, step |-> cause.step]

\* errorContext(`While copying tweet: ${tweet.url}`, callback), callback
\* having thrown `cause`.
ErrorContext(id, cause) == Exception(id, cause)

(***************************************************************************)
(* Initial states: any upstream within the bounds, newest first by ID and  *)
(* by time, no process running, nothing stored yet by this program.        *)
(***************************************************************************)
TweetDescs == [created_at : 1..MaxTs, kind : Kinds]

Upstreams ==
    UNION {{u \in [1..n -> TweetDescs] :
                \A i \in 1..n : \A j \in 1..n :
                    i <= j => u[i].created_at <= u[j].created_at}
           : n \in 0..MaxFeedLen}

\* No process is running: main()'s locals at their initial values.
EngineIdle ==
    /\ store = [who \in Identities |-> [id \in 1..Len(upstream) |-> 0]]
    /\ pc = "idle"
    /\ cur = 1
    /\ maxTweets = 0
    /\ copyAttachments = FALSE
    /\ lastTimestamp = NoTimestamp
    /\ maxID = NoMaxID
    /\ page = <<>>
    /\ pageIdx = 1
    /\ newTweets = <<>>
    /\ index = 1
    /\ attachments = 0
    /\ error = Null
    /\ ran = {}
    /\ outcome = "none"
    /\ completed = [who \in Identities |-> FALSE]
    /\ prevDone = FALSE
    /\ runWrites = <<>>
    /\ stopAt = NoTweet

\* No collector has been made.
CollectorUnused ==
    /\ scope = "none"
    /\ collector = "none"
    /\ level = 0
    /\ collected = <<>>
    /\ tmpFiles = {}
    /\ nextTmp = 0
    /\ cpc = "idle"
    /\ pending = Null
    /\ thrown = Null
    /\ calls = <<>>
    /\ fetches = {}

\* No generator has been made.
StreamUnused ==
    /\ streamOf = "home"
    /\ sMaxID = NoMaxID
    /\ sPage = <<>>
    /\ sIdx = 1
    /\ spc = "idle"
    /\ sPrevPage = <<>>
    /\ sent = NoMaxID
    /\ yielded = <<>>

\* Client.get has not been called.
GetUnused ==
    /\ gpc = "idle"
    /\ now = 0
    /\ wakeAt = 0
    /\ requests = 0
    /\ limited = 0
    /\ earliest = 0
    /\ response = "none"
    /\ result = [status |-> 0, remaining |-> 0 - 1, reset |-> 0 - 1]

\* No function has been applied.
ApplyUnused ==
    /\ input = Null
    /\ output = Null
    /\ applied = "none"

\* No item has been made and nothing has been PUT.
PublishUnused ==
    /\ item = Null
    /\ puts = <<>>

\* No timeline has been synced.
ConfigUnused == advanced = <<>>

\* No interleaved run has started.
ParUnused ==
    /\ ppc = [who \in Identities |-> "idle"]
    /\ pPos = [who \in Identities |-> 0]
    /\ pLast = [who \in Identities |-> NoTimestamp]
    /\ pBatch = [who \in Identities |-> <<>>]
    /\ pIndex = [who \in Identities |-> 0]
    /\ pWrites = [who \in Identities |-> <<>>]

Init ==
    /\ upstream \in Upstreams
    /\ preexisting \in [Identities -> {NoTimestamp} \cup 1..(MaxTs - 1)]
    /\ EngineIdle
    /\ CollectorUnused
    /\ StreamUnused
    /\ GetUnused
    /\ ApplyUnused
    /\ ParUnused
    /\ PublishUnused
    /\ ConfigUnused

config == <<upstream, preexisting>>
options == <<maxTweets, copyAttachments>>
generator == <<maxID, page, pageIdx>>
history == <<ran, outcome, completed, prevDone>>

(***************************************************************************)
(* main() and the start of one identity's sync.                            *)
(***************************************************************************)
\* main() calls the sync function of Timelines[i], which reads the
\* watermark: syncHomeTimeline(options, config) with some --maxTweets,
\* syncUserTimeline(timeline, options, config) with some copyAttachments.
\*     const lastTimestamp = await getLatestTimestamp(fbClient, userID)
EnterSync(i) ==
    /\ cur' = i
    /\ pc' = "stream"
    /\ \E m \in (IF Timelines[i] = "home" THEN 0..MaxMaxTweets ELSE {0}) :
            maxTweets' = m
    /\ \E c \in (IF Timelines[i] = "user" THEN BOOLEAN ELSE {FALSE}) :
            copyAttachments' = c
    /\ lastTimestamp' = GetLatestTimestamp(GetUserItems(Timelines[i]))
    /\ maxID' = NoMaxID
    /\ page' = <<>>
    /\ pageIdx' = 1
    /\ newTweets' = <<>>
    /\ index' = 1
    /\ attachments' = 0
    /\ runWrites' = <<>>
    /\ stopAt' = NoTweet
    /\ prevDone' = completed[Timelines[i]]

\* The process is started and main() calls syncHomeTimeline.
Main ==
    /\ pc = "idle"
    /\ EnterSync(1)
    /\ completed' = [completed EXCEPT ![Timelines[1]] = FALSE]
    /\ ran' = {Timelines[1]}
    /\ outcome' = "none"
    /\ error' = Null
    /\ UNCHANGED <<elsewhere, config, store>>

\* A copy loop that catches the error of one tweet, records it, and goes on
\* with the next tweet of the batch.
SkipAndContinue(err) ==
    /\ pc' = "copy"
    /\ outcome' = outcome
    /\ error' = err
    /\ index' = index + 1
    /\ maxID' = NoMaxID
    /\ page' = <<>>
    /\ pageIdx' = 1

\* An error leaves the sync function (and ends its generator); main() does
\* not catch it, so the process ends with it.
Throw(err) ==
    /\ pc' = "idle"
    /\ outcome' = "error"
    /\ error' = err
    /\ index' = index
    /\ maxID' = NoMaxID
    /\ page' = <<>>
    /\ pageIdx' = 1

(***************************************************************************)
(* Client.homeTimeline / Client.userTimeline, and the for-await loops that *)
(* consume them.                                                           *)
(***************************************************************************)
\* A generator that yields the tweet at the cursor like any other.
NeverSkips(max_id, id) == FALSE

\* if (maxID === tweet.id_str) { continue }
CursorSkips(max_id, id) == max_id = id

\* maxID = tweets[tweets.length - 1].id_str, once a page has been gone
\* through.
NextMaxID(tweets, max_id) ==
    IF tweets = <<>> THEN max_id ELSE tweets[Len(tweets)]

\* The generator has gone through its page (or has none yet): it moves the
\* cursor to the last tweet of the page and fetches the next page; an empty
\* page ends the generator, and with it the loop, and the batch is sorted.
FetchPage ==
    /\ pc = "stream"
    /\ pageIdx > Len(page)
    /\ LET cursor == NextMaxID(page, maxID)
           tweets == GetPage(TimelineAPI(Who), cursor)
       IN  /\ maxID' = cursor
           /\ page' = tweets
           /\ pageIdx' = 1
           /\ pc' = IF tweets = <<>> THEN "copy" ELSE "stream"
           /\ newTweets' = IF tweets = <<>> THEN SortNewTweets(newTweets)
                           ELSE newTweets
    /\ UNCHANGED <<elsewhere, config, options, store, cur, lastTimestamp, index,
                   attachments, error, history, runWrites, stopAt>>

\* The GET of a page throws (a non-OK response): the error leaves the
\* generator and the sync function.
FetchFail ==
    /\ pc = "stream"
    /\ pageIdx > Len(page)
    /\ Throw(RawError("fetch", NoTweet))
    /\ UNCHANGED <<elsewhere, config, options, store, cur, lastTimestamp, newTweets,
                   attachments, ran, completed, prevDone, runWrites, stopAt>>

\* The generator looks at the next tweet of its page: it passes over the
\* tweet at the cursor, and yields any other to the loop body.  When the
\* loop is left, the batch is sorted:
\*     newTweets.sort(Tweet.sortByTimestamp)
NextTweet ==
    /\ pc = "stream"
    /\ pageIdx <= Len(page)
    /\ LET id == page[pageIdx]
           todo == IF CursorSkips(maxID, id) THEN "continue"
                   ELSE LoopBody(Who, Tweet(id), lastTimestamp)
           pushed == IF todo = "push" THEN Append(newTweets, id) ELSE newTweets
           done == \/ todo = "break"
                   \/ todo = "push" /\ CapReached(pushed, MaxTweetsOf(Who))
       IN  /\ newTweets' = IF done THEN SortNewTweets(pushed) ELSE pushed
           /\ stopAt' = IF todo = "break" THEN id ELSE stopAt
           /\ pc' = IF done THEN "copy" ELSE "stream"
           /\ pageIdx' = IF done THEN pageIdx ELSE pageIdx + 1
    /\ UNCHANGED <<elsewhere, config, options, store, cur, lastTimestamp, maxID, page,
                   index, attachments, error, history, runWrites>>

(***************************************************************************)
(* The copy loops: for each tweet of the batch, toItem (render, convert),  *)
(* sign, putItem, and for a user timeline putAttachment for each collected *)
(* attachment, all inside collector.collect.                               *)
(***************************************************************************)
\* fbClient.putItem(userID, sig, bytes) has stored the item.
Stored(st, who, id) ==
    [st EXCEPT ![who][id] = Min(st[who][id] + 1, MaxWrites)]

\* The collector of the run: new Attachments() collects, the
\* NoOpAttachmentColletor (always, for the home timeline) does not.
Collects(who) == who = "user" /\ copyAttachments

\* What reaches the caller of the sync function when toItem throws `cause`
\* for tweet `id`: syncUserTimeline calls it inside errorContext.
ToItemError(who, id, cause) ==
    IF who = "home" THEN cause ELSE ErrorContext(id, cause)

\* (await tweet.toItem({attachments})).serialize(), privKey.sign(bytes), and
\* putItem is called with the result.
ToItem ==
    /\ pc = "copy"
    /\ index <= Len(newTweets)
    /\ \E n \in 0..(IF Collects(Who) THEN MaxAttachments ELSE 0) :
            attachments' = n
    /\ pc' = "putItem"
    /\ UNCHANGED <<elsewhere, config, options, store, cur, lastTimestamp, generator,
                   newTweets, index, error, history,
                   runWrites, stopAt>>

\* toItem throws (rendering or a download failed).  The error thrown may or
\* may not name the tweet itself.
ToItemFail ==
    /\ pc = "copy"
    /\ index <= Len(newTweets)
    /\ \E names \in {NoTweet, newTweets[index]} :
            Throw(ToItemError(Who, newTweets[index], RawError("toItem", names)))
    /\ attachments' = 0
    /\ UNCHANGED <<elsewhere, config, options, store, cur, lastTimestamp, newTweets,
                   ran, completed, prevDone, runWrites, stopAt>>

\* Where the loop goes once the current tweet is done.
NextIndex ==
    /\ index' = index + 1
    /\ pc' = "copy"

\* putItem returns: the item is stored.  Then the attachments are PUT, if
\* there are any; otherwise the collector is dropped and the loop goes on.
PutItem ==
    /\ pc = "putItem"
    /\ store' = Stored(store, Who, newTweets[index])
    /\ runWrites' = Append(runWrites, newTweets[index])
    /\ IF attachments > 0
       THEN pc' = "putAttachment" /\ index' = index
       ELSE NextIndex
    /\ UNCHANGED <<elsewhere, config, options, cur, lastTimestamp, generator, newTweets,
                   attachments, error, history, stopAt>>

\* putItem throws: nothing is stored.
PutItemFail ==
    /\ pc = "putItem"
    /\ Throw(RawError("putItem", NoTweet))
    /\ attachments' = 0
    /\ UNCHANGED <<elsewhere, config, options, store, cur, lastTimestamp, newTweets,
                   ran, completed, prevDone, runWrites, stopAt>>

\* putAttachment returns for one attachment of the collector.
PutAttachment ==
    /\ pc = "putAttachment"
    /\ attachments' = attachments - 1
    /\ IF attachments = 1
       THEN NextIndex
       ELSE pc' = pc /\ index' = index
    /\ UNCHANGED <<elsewhere, config, options, store, cur, lastTimestamp, generator,
                   newTweets, error, history,
                   runWrites, stopAt>>

\* putAttachment (or opening the temp file) throws; collect() drops the
\* collector on the way out.
PutAttachmentFail ==
    /\ pc = "putAttachment"
    /\ Throw(RawError("putAttachment", NoTweet))
    /\ attachments' = 0
    /\ UNCHANGED <<elsewhere, config, options, store, cur, lastTimestamp, newTweets,
                   ran, completed, prevDone, runWrites, stopAt>>

\* The batch is exhausted: the sync function returns, and main() goes on to
\* the next timeline, or returns.
Return ==
    /\ pc = "copy"
    /\ index > Len(newTweets)
    /\ IF cur < Len(Timelines)
       THEN /\ EnterSync(cur + 1)
            /\ completed' = [completed EXCEPT ![Who] = TRUE,
                                              ![Timelines[cur + 1]] = FALSE]
            /\ ran' = ran \cup {Timelines[cur + 1]}
            /\ UNCHANGED outcome
       ELSE /\ pc' = "idle"
            /\ outcome' = "ok"
            /\ completed' = [completed EXCEPT ![Who] = TRUE]
            /\ UNCHANGED <<cur, options, lastTimestamp, generator, newTweets,
                           index, attachments, prevDone, runWrites, stopAt,
                           ran>>
    /\ UNCHANGED <<elsewhere, config, store, error>>

\* The process is killed, at any point, and its memory is gone.  A putItem
\* in flight may or may not have reached the server.
Crash ==
    /\ pc # "idle"
    /\ \E landed \in BOOLEAN :
        /\ landed => pc = "putItem"
        /\ store' = IF landed THEN Stored(store, Who, newTweets[index])
                    ELSE store
    /\ pc' = "idle"
    /\ outcome' = "crash"
    /\ cur' = 1
    /\ maxTweets' = 0
    /\ copyAttachments' = FALSE
    /\ lastTimestamp' = NoTimestamp
    /\ maxID' = NoMaxID
    /\ page' = <<>>
    /\ pageIdx' = 1
    /\ newTweets' = <<>>
    /\ index' = 1
    /\ attachments' = 0
    /\ runWrites' = <<>>
    /\ stopAt' = NoTweet
    /\ prevDone' = FALSE
    /\ ran' = {}
    /\ UNCHANGED <<elsewhere, config, error, completed>>

Next ==
    \/ Main
    \/ FetchPage
    \/ FetchFail
    \/ NextTweet
    \/ ToItem
    \/ ToItemFail
    \/ PutItem
    \/ PutItemFail
    \/ PutAttachment
    \/ PutAttachmentFail
    \/ Return
    \/ Crash

Spec == Init /\ [][Next]_vars

(***************************************************************************)
(* Vocabulary of the properties.                                           *)
(***************************************************************************)
Range(seq) == {seq[i] : i \in 1..Len(seq)}
Ts(id) == Timestamp(Tweet(id))
InTimeline(who, id) == id \in Range(TimelineAPI(who))
Watermark(who) == GetLatestTimestamp(GetUserItems(who))
HasWatermark(w) == w # NoTimestamp
Published(who, id) == store[who][id] > 0

\* By construction of TweetJSON: the tweets with no protected author in
\* them, and the tweets whose author is in the skip-set.
AllAuthorsPublic(id) == upstream[id].kind \in {"plain", "skip"}
ByUserOfSkipSet(id) == upstream[id].kind = "skip"

\* The tweets of the timeline of `who` that a sync may accumulate: public
\* and, on the home timeline, not by a user of the skip-set.
NotPassedOver(who, id) ==
    /\ InTimeline(who, id)
    /\ who = "home" => AllAuthorsPublic(id) /\ ~ByUserOfSkipSet(id)

\* At or before watermark w.
AtOrBefore(id, w) == HasWatermark(w) /\ Ts(id) <= w

(***************************************************************************)
(* C1.  No unpublished tweet is permanently skipped: every tweet that is   *)
(* public, not in the skip-set and newer than the initial watermark is     *)
(* eventually published by some run.  The upstream never changes and the   *)
(* watermark of a blog never decreases, so a tweet that is at or before    *)
(* the watermark while no process runs is never accumulated again.  The    *)
(* claim therefore requires: whenever no process is running, every such    *)
(* tweet that is still unpublished is newer than the watermark.            *)
(***************************************************************************)
Eligible(who, id) ==
    /\ InTimeline(who, id)
    /\ AllAuthorsPublic(id)
    /\ ~ByUserOfSkipSet(id)
    /\ ~AtOrBefore(id, preexisting[who])

C1_NoPermanentSkip ==
    pc = "idle" =>
        \A who \in Identities : \A id \in TweetIDs :
            (Eligible(who, id) /\ ~Published(who, id))
                => ~AtOrBefore(id, Watermark(who))

(***************************************************************************)
(* C2.  No upstream tweet is written to the blog of one identity more than *)
(* once, across all runs, whichever runs crashed or failed after storing a *)
(* prefix of their batch.                                                  *)
(***************************************************************************)
C2_NeverStoredTwice ==
    \A who \in Identities : \A id \in TweetIDs : store[who][id] <= 1

\* A run that follows a run which stored some tweet and did not complete
\* has stored a further tweet.
C2_ResumedRunStores ==
    /\ pc # "idle"
    /\ ~prevDone
    /\ runWrites # <<>>
    /\ \E id \in TweetIDs : Published(Who, id) /\ id \notin Range(runWrites)

(***************************************************************************)
(* C3.  Idempotence: a run that follows a completed run of the same        *)
(* identity (the upstream being unchanged) accumulates and stores nothing. *)
(***************************************************************************)
C3_Idempotent ==
    prevDone => newTweets = <<>> /\ runWrites = <<>>

\* A run after a completed run that had stored something has finished
\* streaming.
C3_SecondRunDone ==
    /\ prevDone
    /\ pc = "copy"
    /\ \E id \in TweetIDs : Published(Who, id)

(***************************************************************************)
(* C4.  Within one run the tweets are stored one at a time, oldest first:  *)
(* while a putItem is in flight every tweet of the batch with an earlier   *)
(* timestamp has been stored, what the run has stored is the batch up to   *)
(* the tweet in flight, and the timestamps of the stored tweets never      *)
(* decrease.                                                               *)
(***************************************************************************)
C4_OldestFirst ==
    /\ \A i \in 1..Len(runWrites) : \A j \in 1..Len(runWrites) :
            i < j => Ts(runWrites[i]) <= Ts(runWrites[j])
    /\ pc = "putItem" =>
        /\ runWrites = SubSeq(newTweets, 1, index - 1)
        /\ \A k \in 1..Len(newTweets) :
                Ts(newTweets[k]) < Ts(newTweets[index])
                    => newTweets[k] \in Range(runWrites)

\* The second tweet of a batch is in flight, and it is newer than the first.
C4_SecondInFlight ==
    /\ pc = "putItem"
    /\ index = 2
    /\ Ts(newTweets[1]) < Ts(newTweets[2])

(***************************************************************************)
(* C5.  In every run, of the home timeline and of a user timeline, a tweet *)
(* with a protected author in it (its own, or that of a retweeted or       *)
(* quoted tweet at any depth) is never in the batch and never stored.      *)
(***************************************************************************)
C5_OnlyPublic ==
    /\ \A k \in 1..Len(newTweets) : AllAuthorsPublic(newTweets[k])
    /\ \A who \in Identities : \A id \in TweetIDs :
            Published(who, id) => AllAuthorsPublic(id)

(***************************************************************************)
(* C6.  Streaming stops at the first tweet, not passed over, whose         *)
(* timestamp is at or before the watermark: every tweet of the batch is    *)
(* strictly newer than the watermark, no tweet that follows such a         *)
(* boundary tweet in the stream is in the batch, and once the generator    *)
(* has yielded a boundary tweet the loop is left (nothing more is pulled). *)
(***************************************************************************)
Boundary(who, id) ==
    NotPassedOver(who, id) /\ AtOrBefore(id, lastTimestamp)

C6_StopAtWatermark ==
    /\ \A k \in 1..Len(newTweets) : ~AtOrBefore(newTweets[k], lastTimestamp)
    /\ \A k \in 1..Len(newTweets) : \A id \in TweetIDs :
            Boundary(Who, id) => newTweets[k] > id
    /\ pc = "stream" =>
            \A j \in 1..(pageIdx - 1) : ~Boundary(Who, page[j])
    /\ stopAt # NoTweet =>
            /\ pc # "stream"
            /\ Boundary(Who, stopAt)
            /\ \A id \in TweetIDs : Boundary(Who, id) => id <= stopAt

\* The loop was left at a boundary tweet after a newer tweet was accumulated.
C6_StoppedAfterAccumulating ==
    /\ stopAt # NoTweet
    /\ newTweets # <<>>

(***************************************************************************)
(* C7.  The batch never holds more tweets than the configured maximum,     *)
(* for every value of the maximum, 0 and 1 included.                       *)
(***************************************************************************)
C7_BatchWithinMax ==
    Len(newTweets) <= MaxTweetsOf(Who)

(***************************************************************************)
(* C8.  When the pipeline of one tweet fails (toItem, putItem or           *)
(* putAttachment throws for tweet k of the sorted batch), the run is over: *)
(* no tweet after k has been stored by it, and the tweets before k are     *)
(* stored.                                                                 *)
(***************************************************************************)
PerItemSteps == {"toItem", "putItem", "putAttachment"}
PipelineFailed == error # Null /\ error.step \in PerItemSteps

C8_AbortsBatchKeepsPrefix ==
    PipelineFailed =>
        /\ pc = "idle"
        /\ \A k \in 1..Len(newTweets) :
                k > index => /\ newTweets[k] \notin Range(runWrites)
                             /\ ~Published(Who, newTweets[k])
        /\ \A k \in 1..Len(newTweets) :
                k < index => /\ newTweets[k] \in Range(runWrites)
                             /\ Published(Who, newTweets[k])

\* The pipeline of the first of two tweets failed after the tweet itself
\* was stored.
C8_FailedWithTweetsLeft ==
    /\ PipelineFailed
    /\ index = 1
    /\ Len(newTweets) = 2
    /\ runWrites = <<newTweets[1]>>

(***************************************************************************)
(* C9.  A failure while syncing one identity does not affect the others:   *)
(* when an invocation has ended with an error, the sync of every           *)
(* configured identity has been run by it.                                 *)
(***************************************************************************)
C9_OthersStillRun ==
    (pc = "idle" /\ outcome = "error") => ran = Identities

(***************************************************************************)
(* C10.  Every failure of the per-tweet pipeline, in the home and in the   *)
(* user timeline runs and at every step, reaches the caller wrapped in an  *)
(* error whose message names the tweet being processed.                    *)
(***************************************************************************)
C10_ErrorNamesTweet ==
    PipelineFailed =>
        /\ error.wrapped
        /\ error.names = newTweets[index]

(***************************************************************************)
(* The attachment collectors (priv/attachments.ts) and the rendering of    *)
(* one tweet under a collect() scope (Tweet.toHTML).                       *)
(***************************************************************************)
\* Most tryAddURL calls made under one scope.
MaxCalls == 3
\* Deepest nesting of retweeted / quoted tweets rendered (1: no nesting).
MaxDepth == 3

\* error.response.status == 403
Forbidden == 403

\* The media URLs of the tweets: https://host/<dir>/<name>.
Dirs == {"a", "b"}
Names == {"x", "y"}
URLs == [dir : Dirs, name : Names]

\* path.basename(url.pathname)
Basename(url) == url.name

\* sha512 of the bytes served at the URL: a/x and b/x differ, a/y and b/y
\* are the same bytes.
Digest(url) ==
    IF url.name = "x" THEN (IF url.dir = "a" THEN 1 ELSE 2) ELSE 3

\* new Attachment(name, tmpFile, sha512.digest(), fileSize)
Attachment(name, tmpFile, hash) ==
    [name |-> name, tmpFile |-> tmpFile, hash |-> hash]

\* get markdownPath() { return `files/${this.name}` }
MarkdownPath(a) == [dir |-> "files", name |-> a.name]

\* A temp file: what has been written to it, and whether that is all of it.
TmpFile(id, url, whole) ==
    [id |-> id, name |-> Basename(url),
     hash |-> IF whole THEN Digest(url) ELSE 0, whole |-> whole]

\* A NoOp collector that answers with a files/ path, as a collecting one does.
NoOpAsPath(url) == [dir |-> "files", name |-> Basename(url)]

\* NoOpAttachmentColletor.tryAddURL
NoOpTryAddURL(url) == url

\* A forQuoteTweet() that hands the collector itself to the quoted tweet.
ForQuoteTweetSame(c) == c

\* forRetweet() / forQuoteTweet() of either collector.
ForRetweet(c) == IF c = "Attachments" THEN "NoOp" ELSE c
ForQuoteTweet(c) == IF c = "Attachments" THEN "NoOp" ELSE c

\* Errors thrown inside collect(): a FetchError carries the response status.
FetchError(status) == [kind |-> "FetchError", status |-> status]
OtherError(kind) == [kind |-> kind, status |-> 0]

\* A fallback test that forgets the status.
IsFetchError(err) == err.kind = "FetchError"

\* error instanceof FetchError && error.response.status == 403
IsForbidden(err) == err.kind = "FetchError" /\ err.status = Forbidden

\* A comparison that takes any two attachments of one name for the same.
NameOnly(h1, h2) == TRUE

\* bytes.equals(a.hash, attachment.hash)
BytesEquals(h1, h2) == h1 = h2

\* An add() that pushes whatever it is given.
AddAlwaysPushes(list, att) == "push"

\* Attachments.add: what the loop over _attachments decides for `att`.
RECURSIVE AddOutcome(_, _)
AddOutcome(list, att) ==
    IF list = <<>> THEN "push"
    ELSE IF Head(list).name # att.name THEN AddOutcome(Tail(list), att)
    ELSE IF BytesEquals(Head(list).hash, att.hash) THEN "duplicate"
    ELSE "collision"

\* A drop() that leaves the temp file where it is.
RemoveNothing(files, id) == files

\* Deno.remove(this.tmpFile)
Remove(files, id) == {f \in files : f.id # id}

\* Attachments.drop / NoOpAttachmentColletor.drop: the temp files left.
RECURSIVE DropAll(_, _)
DropAll(list, files) ==
    IF list = <<>> THEN files
    ELSE DropAll(Tail(list), Remove(files, Head(list).tmpFile))

\* One ended tryAddURL call: what it returned or that it threw, and the
\* status of the response it got (0: none).
Call(url, ret, threw, status) ==
    [url |-> url, level |-> level, by |-> collector, ret |-> ret,
     threw |-> threw, status |-> status]

CallsLeft == Len(calls) < MaxCalls

CollectInit ==
    /\ upstream = <<>>
    /\ preexisting = [who \in Identities |-> NoTimestamp]
    /\ EngineIdle
    /\ CollectorUnused
    /\ StreamUnused
    /\ GetUnused
    /\ ApplyUnused
    /\ ParUnused
    /\ PublishUnused
    /\ ConfigUnused

renderVars == <<scope, collector, level>>

\* collector.collect(callback) is called on a new collector and the callback
\* starts rendering the tweet.
Collect ==
    /\ cpc = "idle"
    /\ \E k \in {"Attachments", "NoOp"} :
        /\ scope' = k
        /\ collector' = k
    /\ level' = 1
    /\ cpc' = "render"
    /\ UNCHANGED <<collected, tmpFiles, nextTmp, pending, thrown, calls,
                   fetches, syncVars, otherVars, streamVars, getVars>>

\* toHTML goes into the retweeted tweet (instead of rendering its own
\* media), or into the quoted tweet (after its own media), with the
\* collector forRetweet() / forQuoteTweet() gives.
Descend ==
    /\ cpc = "render"
    /\ level < MaxDepth
    /\ \E link \in {"rt", "qt"} :
        /\ link = "rt" => \A i \in 1..Len(calls) : calls[i].level # level
        /\ collector' = IF link = "rt" THEN ForRetweet(collector)
                        ELSE ForQuoteTweet(collector)
    /\ level' = level + 1
    /\ UNCHANGED <<scope, collected, tmpFiles, nextTmp, cpc, pending, thrown,
                   calls, fetches, syncVars, otherVars, streamVars, getVars>>

\* options.attachments.tryAddURL(url, this.url) on a NoOp collector.
TryAddURLNoOp ==
    /\ cpc = "render"
    /\ collector = "NoOp"
    /\ CallsLeft
    /\ \E url \in URLs :
            calls' = Append(calls, Call(url, NoOpTryAddURL(url), FALSE, 0))
    /\ UNCHANGED <<renderVars, collected, tmpFiles, nextTmp, cpc, pending,
                   thrown, fetches, syncVars, otherVars, streamVars, getVars>>

\* options.attachments.tryAddURL(url, this.url) on an Attachments collector:
\* addURL calls Attachment.fromURL, which fetches the URL.
TryAddURL ==
    /\ cpc = "render"
    /\ collector = "Attachments"
    /\ CallsLeft
    /\ \E url \in URLs :
        /\ pending' = [url |-> url, att |-> Null]
        /\ fetches' = fetches \cup {[url |-> url, level |-> level]}
    /\ cpc' = "fetch"
    /\ UNCHANGED <<renderVars, collected, tmpFiles, nextTmp, thrown, calls,
                   syncVars, otherVars, streamVars, getVars>>

\* tryAddURL's catch: a 403 FetchError makes it return fileURL; any other
\* error is thrown again and leaves the callback of collect().
Catch(err) ==
    IF IsForbidden(err)
    THEN /\ calls' = Append(calls, Call(pending.url, pending.url, FALSE,
                                       err.status))
         /\ cpc' = "render"
         /\ pending' = Null
         /\ thrown' = thrown
    ELSE /\ calls' = Append(calls, Call(pending.url, Null, TRUE, err.status))
         /\ cpc' = "finally"
         /\ pending' = pending
         /\ thrown' = err

\* The response is not ok: fromURL throws FetchError("Non-OK response").
FetchNotOk ==
    /\ cpc = "fetch"
    /\ \E status \in {Forbidden, 500} : Catch(FetchError(status))
    /\ UNCHANGED <<renderVars, collected, tmpFiles, nextTmp, fetches,
                   syncVars, otherVars, streamVars, getVars>>

\* The response is ok and has no body: FetchError("Null response body").
FetchNoBody ==
    /\ cpc = "fetch"
    /\ Catch(FetchError(200))
    /\ UNCHANGED <<renderVars, collected, tmpFiles, nextTmp, fetches,
                   syncVars, otherVars, streamVars, getVars>>

\* The response is ok: fromBytes makes a temp file and starts writing.
FetchOk ==
    /\ cpc = "fetch"
    /\ nextTmp' = nextTmp + 1
    /\ tmpFiles' = tmpFiles \cup {TmpFile(nextTmp + 1, pending.url, FALSE)}
    /\ cpc' = "download"
    /\ UNCHANGED <<renderVars, collected, pending, thrown, calls, fetches,
                   syncVars, otherVars, streamVars, getVars>>

\* The body has been read to its end: fromBytes returns the Attachment.
DownloadDone ==
    /\ cpc = "download"
    /\ tmpFiles' = Remove(tmpFiles, nextTmp)
                        \cup {TmpFile(nextTmp, pending.url, TRUE)}
    /\ pending' = [pending EXCEPT
            !.att = Attachment(Basename(pending.url), nextTmp,
                               Digest(pending.url))]
    /\ cpc' = "add"
    /\ UNCHANGED <<renderVars, collected, nextTmp, thrown, calls, fetches,
                   syncVars, otherVars, streamVars, getVars>>

\* Reading the body throws: fromBytes closes the file and the error goes on.
DownloadAbort ==
    /\ cpc = "download"
    /\ Catch(OtherError("stream"))
    /\ UNCHANGED <<renderVars, collected, tmpFiles, nextTmp, fetches,
                   syncVars, otherVars, streamVars, getVars>>

\* this.add(a): push, or drop the duplicate's temp file, or throw; then
\* addURL returns a.markdownPath.
Add ==
    /\ cpc = "add"
    /\ LET att == pending.att
           what == AddOutcome(collected, att)
       IN  IF what = "collision"
           THEN /\ Catch(OtherError("string"))
                /\ UNCHANGED <<collected, tmpFiles>>
           ELSE /\ collected' = IF what = "push" THEN Append(collected, att)
                                ELSE collected
                /\ tmpFiles' = IF what = "duplicate"
                               THEN Remove(tmpFiles, att.tmpFile)
                               ELSE tmpFiles
                /\ calls' = Append(calls,
                                   Call(pending.url, MarkdownPath(att), FALSE,
                                        200))
                /\ cpc' = "render"
                /\ pending' = Null
                /\ UNCHANGED thrown
    /\ UNCHANGED <<renderVars, nextTmp, fetches, syncVars, otherVars, streamVars,
                   getVars>>

\* The callback returns: the tweet was rendered, the item and its
\* attachments were PUT.
CallbackReturns ==
    /\ cpc = "render"
    /\ cpc' = "finally"
    /\ UNCHANGED <<renderVars, collected, tmpFiles, nextTmp, pending, thrown,
                   calls, fetches, syncVars, otherVars, streamVars, getVars>>

\* Something else in the callback throws: rendering, putItem, putAttachment.
CallbackThrows ==
    /\ cpc = "render"
    /\ cpc' = "finally"
    /\ thrown' = OtherError("callback")
    /\ UNCHANGED <<renderVars, collected, tmpFiles, nextTmp, pending, calls,
                   fetches, syncVars, otherVars, streamVars, getVars>>

\* finally { await this.drop() }, and collect() ends.
Drop ==
    /\ cpc = "finally"
    /\ tmpFiles' = DropAll(collected, tmpFiles)
    /\ collected' = <<>>
    /\ cpc' = "closed"
    /\ UNCHANGED <<renderVars, nextTmp, pending, thrown, calls, fetches,
                   syncVars, otherVars, streamVars, getVars>>

CollectNext ==
    \/ Collect
    \/ Descend
    \/ TryAddURLNoOp
    \/ TryAddURL
    \/ FetchNotOk
    \/ FetchNoBody
    \/ FetchOk
    \/ DownloadDone
    \/ DownloadAbort
    \/ Add
    \/ CallbackReturns
    \/ CallbackThrows
    \/ Drop

CollectSpec == CollectInit /\ [][CollectNext]_vars

(***************************************************************************)
(* Properties of the collectors.                                           *)
(***************************************************************************)
ScopeOpen == cpc \notin {"idle", "closed"}
IsPath(ret) == ret # Null /\ ret.dir = "files"
Ended == 1..Len(calls)
CollectedFiles == {collected[i].tmpFile : i \in 1..Len(collected)}
LiveFiles == {f.id : f \in tmpFiles}
\* Two temp files that hold the whole of the same attachment.
SameAttachment(f, g) ==
    f.whole /\ g.whole /\ f.name = g.name /\ f.hash = g.hash

\* C11: when collect() of a collecting scope has ended, by return or by any
\* throw, no temp file made inside the scope exists any more and the scope's
\* list is empty.
C11_ScopeEndsClean ==
    cpc = "closed" => tmpFiles = {} /\ collected = <<>>

\* C12, as stated: at every point of a collecting scope's lifetime, a second
\* addition in progress included, no two temp files hold the same attachment.
C12_OneTmpFilePerAttachment ==
    ScopeOpen => \A f \in tmpFiles : \A g \in tmpFiles :
                    SameAttachment(f, g) => f = g

\* C12, amended: the same, at every point of the scope's lifetime except
\* between the end of a second download of collected content and add().
C12_OneTmpFileOutsideAdd ==
    (ScopeOpen /\ cpc # "add") =>
        \A f \in tmpFiles : \A g \in tmpFiles : SameAttachment(f, g) => f = g

C12_DuplicateDropped ==
    /\ cpc = "render"
    /\ nextTmp = 2
    /\ Len(collected) = 1
    /\ Cardinality(tmpFiles) = 1

\* C13: adding the same content under the same name again leaves one
\* Attachment in the list, returns files/<name> every time, and leaves no
\* temp file but those of the list.
C13_Dedup ==
    /\ \A i \in 1..Len(collected) : \A j \in 1..Len(collected) :
            collected[i].name = collected[j].name => i = j
    /\ \A i \in Ended :
            (calls[i].by = "Attachments" /\ IsPath(calls[i].ret)) =>
                /\ calls[i].ret = [dir |-> "files",
                                   name |-> Basename(calls[i].url)]
                /\ ScopeOpen =>
                     \E k \in 1..Len(collected) :
                        /\ collected[k].name = Basename(calls[i].url)
                        /\ collected[k].hash = Digest(calls[i].url)
    /\ cpc = "render" => LiveFiles = CollectedFiles

C13_SameURLTwice ==
    /\ cpc = "render"
    /\ Len(calls) = 2
    /\ calls[1].url = calls[2].url
    /\ IsPath(calls[1].ret)
    /\ calls[2].ret = calls[1].ret
    /\ Len(collected) = 1

\* C14: a second addition under a collected name with other content throws;
\* the error is not turned into a fallback, it ends the scope, and the entry
\* collected first stays as it was until the scope is dropped.
Collides(att) ==
    \E k \in 1..Len(collected) :
        collected[k].name = att.name /\ collected[k].hash # att.hash

C14_CollisionFails ==
    /\ \A i \in Ended : \A j \in Ended :
            (/\ i < j
             /\ IsPath(calls[i].ret) /\ IsPath(calls[j].ret)
             /\ Basename(calls[i].url) = Basename(calls[j].url))
            => Digest(calls[i].url) = Digest(calls[j].url)
    /\ \A f \in tmpFiles :
            (/\ ScopeOpen /\ cpc # "add"
             /\ f.whole /\ f.id \notin CollectedFiles)
            => /\ thrown # Null /\ thrown.kind = "string"
               /\ cpc = "finally"
               /\ calls[Len(calls)].threw
               /\ pending.att.tmpFile = f.id
               /\ Collides(pending.att)
               /\ CollectedFiles \subseteq LiveFiles
    /\ (thrown # Null /\ thrown.kind = "string") =>
            cpc \in {"finally", "closed"}

C14_CollisionThrown ==
    /\ cpc = "finally"
    /\ thrown # Null /\ thrown.kind = "string"
    /\ Len(collected) = 1
    /\ Collides(pending.att)

\* C15: a 403 response makes tryAddURL of a collecting scope return the URL
\* it was given, with nothing added and no temp file made; any other failed
\* download is thrown on.
C15_ForbiddenFallsBack ==
    /\ \A i \in Ended :
            calls[i].by = "Attachments" =>
                /\ calls[i].status = Forbidden =>
                        ~calls[i].threw /\ calls[i].ret = calls[i].url
                /\ (~calls[i].threw /\ ~IsPath(calls[i].ret)) =>
                        calls[i].status = Forbidden
    /\ cpc = "render" =>
            /\ nextTmp = Cardinality({i \in Ended : IsPath(calls[i].ret)})
            /\ Len(collected) <= nextTmp
    /\ (thrown # Null /\ thrown.kind = "FetchError") =>
            thrown.status # Forbidden

C15_FallbackThenFailure ==
    /\ Len(calls) = 2
    /\ calls[1].status = Forbidden /\ calls[1].ret = calls[1].url
    /\ calls[2].threw /\ calls[2].status = 500
    /\ thrown = FetchError(500)
    /\ nextTmp = 0

\* C16: under a collecting scope, nothing is fetched or added for a nested
\* retweeted or quoted tweet, at any depth: below the item's own tweet the
\* collector is always a NoOp one.
C16_OnlyTopLevelCollects ==
    /\ \A f \in fetches : f.level = 1
    /\ level > 1 => collector = "NoOp"
    /\ \A i \in Ended :
            calls[i].level > 1 =>
                /\ calls[i].by = "NoOp"
                /\ calls[i].ret = calls[i].url

C16_NestedMediaReferenced ==
    /\ scope = "Attachments"
    /\ level = MaxDepth
    /\ Len(collected) = 1
    /\ \E i \in Ended : calls[i].level = MaxDepth
    /\ \E i \in Ended : calls[i].level = 2

\* C17: a NoOp collector returns every URL as it was given, fetches nothing,
\* and its list is empty whatever has been called on it.
C17_NoOpPassesThrough ==
    /\ \A i \in Ended :
            calls[i].by = "NoOp" =>
                /\ ~calls[i].threw
                /\ calls[i].ret = calls[i].url
                /\ calls[i].status = 0
    /\ scope = "NoOp" =>
            /\ collected = <<>>
            /\ tmpFiles = {}
            /\ nextTmp = 0
            /\ fetches = {}

C17_NoOpScopeClosed ==
    /\ scope = "NoOp"
    /\ cpc = "closed"
    /\ Len(calls) >= 2

(***************************************************************************)
(* Client.homeTimeline() / Client.userTimeline(): the generator, read by a *)
(* consumer that takes every tweet it yields.                              *)
(***************************************************************************)
StreamInit ==
    /\ upstream \in Upstreams
    /\ preexisting = [who \in Identities |-> NoTimestamp]
    /\ EngineIdle
    /\ CollectorUnused
    /\ StreamUnused
    /\ GetUnused
    /\ ApplyUnused
    /\ ParUnused
    /\ PublishUnused
    /\ ConfigUnused

\* tClient.homeTimeline() or tClient.userTimeline(screenName, options) is
\* called and the consumer asks for the first tweet.
StartStream ==
    /\ spc = "idle"
    /\ \E who \in Identities : streamOf' = who
    /\ spc' = "fetch"
    /\ UNCHANGED <<sMaxID, sPage, sIdx, sPrevPage, sent, yielded, syncVars, otherVars,
                   collectVars, getVars>>

\* const tweets = await this.getFeedPage(maxID); an empty page ends the
\* generator.
StreamFetch ==
    /\ spc = "fetch"
    /\ LET got == GetPage(TimelineAPI(streamOf), sMaxID)
       IN  /\ sPage' = got
           /\ spc' = IF got = <<>> THEN "done" ELSE "page"
    /\ sent' = sMaxID
    /\ sPrevPage' = sPage
    /\ sIdx' = 1
    /\ UNCHANGED <<streamOf, sMaxID, yielded, syncVars, otherVars, collectVars, getVars>>

\* for (const tweet of tweets): the tweet at the cursor is passed over, any
\* other is yielded.
StreamNextTweet ==
    /\ spc = "page"
    /\ sIdx <= Len(sPage)
    /\ Len(yielded) <= Len(upstream)
    /\ yielded' = IF CursorSkips(sMaxID, sPage[sIdx]) THEN yielded
                  ELSE Append(yielded, sPage[sIdx])
    /\ sIdx' = sIdx + 1
    /\ UNCHANGED <<streamOf, sMaxID, sPage, spc, sPrevPage, sent, syncVars, otherVars,
                   collectVars, getVars>>

\* The page has been gone through: the cursor moves to its last tweet.
StreamEndOfPage ==
    /\ spc = "page"
    /\ sIdx > Len(sPage)
    /\ sMaxID' = NextMaxID(sPage, sMaxID)
    /\ spc' = "fetch"
    /\ UNCHANGED <<streamOf, sPage, sIdx, sPrevPage, sent, yielded, syncVars, otherVars,
                   collectVars, getVars>>

StreamNext ==
    \/ StartStream
    \/ StreamFetch
    \/ StreamNextTweet
    \/ StreamEndOfPage

StreamSpec == StreamInit /\ [][StreamNext]_vars

\* The generator and its consumer keep running: no step of theirs that can
\* be taken is put off for ever.
StreamLive == StreamSpec /\ WF_vars(StreamNext)

\* The tweets of the timeline with an ID at or above max_id, newest first.
RECURSIVE DownTo(_, _)
DownTo(timeline, max_id) ==
    IF timeline = <<>> THEN <<>>
    ELSE IF Head(timeline) < max_id THEN <<>>
    ELSE <<Head(timeline)>> \o DownTo(Tail(timeline), max_id)

IsPrefix(p, q) == Len(p) <= Len(q) /\ p = SubSeq(q, 1, Len(p))

\* C18: with pages that start at the cursor's tweet, the generators yield
\* each tweet of the timeline once, newest first; every request after the
\* first carries the ID of the last tweet of the page before, and the tweet
\* at the cursor is passed over.
C18_YieldsEachOnce ==
    /\ IsPrefix(yielded, TimelineAPI(streamOf))
    /\ (spc = "fetch" /\ sMaxID # NoMaxID) =>
            yielded = DownTo(TimelineAPI(streamOf), sMaxID)
    /\ spc \in {"page", "done"} =>
            sent = IF sPrevPage = <<>> THEN NoMaxID
                   ELSE sPrevPage[Len(sPrevPage)]
    /\ (spc = "page" /\ sPrevPage # <<>>) => sPage[1] = sent

C18_AllYieldedOverPages ==
    /\ Len(yielded) = MaxFeedLen
    /\ yielded = TimelineAPI(streamOf)
    /\ spc = "page"
    /\ sPage = <<yielded[Len(yielded)]>>
    /\ sIdx = 2

\* C19: a consumer that reads on sees the stream of a finite upstream end:
\* the generator returns after the last tweet has been yielded.
C19_StreamEnds == <>(spc = "done")

(***************************************************************************)
(* Client.get(url): the request loop and its wait for the rate limit.      *)
(***************************************************************************)
\* Most fetch(url) calls of one get().
MaxRequests == 3
\* Largest x-rate-limit-reset header, in seconds.
MaxReset == 2

\* result.status == 429
TooManyRequests == 429
\* parseIntHeader(result, "x-rate-limit-reset") * 1000
MsPerSecond == 1000
\* + 5000 // for good measure (& clock drift)
ClockDrift == 5000

\* result.headers.get(header) gave nothing.
NoHeader == -1

\* The clock goes no further than this.
Horizon == MaxReset * MsPerSecond + 2 * ClockDrift

\* A wait without the margin for clock drift.
WaitMsNoDrift(limitResetMS, nowMs) == limitResetMS - nowMs

\* const waitMs = (limitResetMS - now) + 5000
WaitMs(limitResetMS, nowMs) == (limitResetMS - nowMs) + ClockDrift

\* The statuses the API answers with.
Statuses == {200, 404, TooManyRequests, 500}

\* A response: its status, and its x-rate-limit-remaining and
\* x-rate-limit-reset headers (NoHeader when it has none).
Response(status, remaining, reset) ==
    [status |-> status, remaining |-> remaining, reset |-> reset]

\* An ok test that lets client errors through.
NotServerError(status) == status < 500

\* result.ok
Ok(status) == status \in 200..299

\* A 429 test that only looks for missing headers.
MissingHeader(remaining, reset) == remaining = NoHeader \/ reset = NoHeader

\* What makes a 429 fatal: parseIntHeader throws for a missing header, and
\* get() throws when calls remain.
Fatal429(remaining, reset) ==
    remaining = NoHeader \/ remaining > 0 \/ reset = NoHeader

GetInit ==
    /\ upstream = <<>>
    /\ preexisting = [who \in Identities |-> NoTimestamp]
    /\ EngineIdle
    /\ CollectorUnused
    /\ StreamUnused
    /\ GetUnused
    /\ ApplyUnused
    /\ ParUnused
    /\ PublishUnused
    /\ ConfigUnused

\* Time passes.
Tick ==
    /\ now < Horizon
    /\ now' = now + ClockDrift \div 2
    /\ UNCHANGED <<gpc, wakeAt, requests, limited, earliest, response,
                   result, syncVars, otherVars, collectVars, streamVars>>

\* get(url) is called: the OAuth header is made and the loop is entered.
Get ==
    /\ gpc = "idle"
    /\ gpc' = "fetch"
    /\ UNCHANGED <<now, wakeAt, requests, limited, earliest, response,
                   result, syncVars, otherVars, collectVars, streamVars>>

\* const result = await fetch(url, {headers})
Fetch ==
    /\ gpc = "fetch"
    /\ requests < MaxRequests
    /\ requests' = requests + 1
    /\ gpc' = "await"
    /\ UNCHANGED <<now, wakeAt, limited, earliest, response, result,
                   syncVars, otherVars, collectVars, streamVars>>

\* The response is ok: get() returns it.
RespOk ==
    /\ gpc = "await"
    /\ \E status \in Statuses \ {TooManyRequests} :
        /\ Ok(status)
        /\ result' = Response(status, NoHeader, NoHeader)
    /\ response' = "ok"
    /\ gpc' = "returned"
    /\ UNCHANGED <<now, wakeAt, requests, limited, earliest, syncVars, otherVars,
                   collectVars, streamVars>>

\* The response is neither 429 nor ok: get() throws.
RespNotOk ==
    /\ gpc = "await"
    /\ \E status \in Statuses \ {TooManyRequests} :
        /\ ~Ok(status)
        /\ result' = Response(status, NoHeader, NoHeader)
    /\ response' = "bad"
    /\ gpc' = "thrown"
    /\ UNCHANGED <<now, wakeAt, requests, limited, earliest, syncVars, otherVars,
                   collectVars, streamVars>>

\* The response is 429.  A header that is missing, or calls remaining, make
\* get() throw; otherwise it computes the wait and starts delay(waitMs).
RespTooManyRequests ==
    /\ gpc = "await"
    /\ \E remaining \in {NoHeader, 0, 1} :
       \E reset \in {NoHeader} \cup 0..MaxReset :
            /\ result' = Response(TooManyRequests, remaining, reset)
            /\ IF Fatal429(remaining, reset)
               THEN /\ response' = "bad"
                    /\ gpc' = "thrown"
                    /\ UNCHANGED <<wakeAt, limited, earliest>>
               ELSE LET limitResetMS == reset * MsPerSecond
                    IN  /\ response' = "limited"
                        /\ gpc' = "delay"
                        /\ wakeAt' = now + WaitMs(limitResetMS, now)
                        /\ limited' = limited + 1
                        /\ earliest' = limitResetMS
    /\ UNCHANGED <<now, requests, syncVars, otherVars, collectVars, streamVars>>

\* delay(waitMs) resolves (at once when waitMs is not positive), and the
\* loop continues.
Wake ==
    /\ gpc = "delay"
    /\ now >= wakeAt
    /\ gpc' = "fetch"
    /\ UNCHANGED <<now, wakeAt, requests, limited, earliest, response,
                   result, syncVars, otherVars, collectVars, streamVars>>

GetNext ==
    \/ Tick
    \/ Get
    \/ Fetch
    \/ RespOk
    \/ RespNotOk
    \/ RespTooManyRequests
    \/ Wake

GetSpec == GetInit /\ [][GetNext]_vars

\* C20: after a 429 with no calls remaining, get() waits until
\* (reset - now) + 5000 ms have passed and issues no request before; it then
\* issues one request for each such 429, and an ok response makes it return.
C20_WaitsThenRetriesOnce ==
    /\ gpc = "delay" =>
            /\ wakeAt = earliest + 5000
            /\ requests = limited
            /\ response = "limited"
    /\ (gpc = "fetch" /\ limited > 0) =>
            /\ now >= earliest + 5000
            /\ requests = limited
    /\ gpc \in {"await", "returned", "thrown"} => requests = limited + 1
    /\ gpc = "returned" <=> response = "ok"

C20_ReturnedAfterTwoWaits ==
    /\ gpc = "returned"
    /\ limited = 2
    /\ requests = 3
    /\ earliest > 0

\* C21: a 429 that says calls remain, or that lacks the remaining or the
\* reset header, makes get() throw, and no request follows it.
C21_Fatal429NotRetried ==
    (/\ result.status = 429
     /\ \/ result.remaining = NoHeader
        \/ result.remaining > 0
        \/ result.reset = NoHeader)
    => /\ gpc = "thrown"
       /\ response = "bad"
       /\ requests = limited + 1

C21_ThrownOnCallsRemaining ==
    /\ gpc = "thrown"
    /\ result.status = 429
    /\ result.remaining > 0
    /\ limited = 1

MaxNesting == 3

\* The authors of the arguments: one public, one protected.
Users == {UserJSON("amy", FALSE), UserJSON("pat", TRUE)}

RECURSIVE Trees(_)
Trees(depth) ==
    IF depth = 0 THEN {}
    ELSE LET sub == {Null} \cup Trees(depth - 1)
         IN  {Nested(user, rt, qt) : user \in Users, rt \in sub, qt \in sub}

PublicInit ==
    /\ upstream = <<>>
    /\ preexisting = [who \in Identities |-> NoTimestamp]
    /\ EngineIdle
    /\ CollectorUnused
    /\ StreamUnused
    /\ GetUnused
    /\ \E user \in Users :
       \E rt \in {Null} \cup Trees(MaxNesting - 1) :
       \E qt \in {Null} \cup Trees(MaxNesting - 1) :
            input = Nested(user, rt, qt)
    /\ output = Null
    /\ applied = "none"
    /\ ParUnused
    /\ PublishUnused
    /\ ConfigUnused

\* new Tweet(json).isPublic
ApplyIsPublic ==
    /\ applied = "none"
    /\ applied' = "isPublic"
    /\ output' = IsPublic(input)
    /\ UNCHANGED <<input, syncVars, collectVars, streamVars, getVars, parVars, publishVars, configVars>>

PublicNext == ApplyIsPublic

PublicSpec == PublicInit /\ [][PublicNext]_vars

\* The authors of a tweet and of every tweet nested in it.
RECURSIVE Authors(_)
Authors(json) ==
    {json.user}
    \cup (IF json.retweeted_status = Null THEN {}
          ELSE Authors(json.retweeted_status))
    \cup (IF json.quoted_status = Null THEN {}
          ELSE Authors(json.quoted_status))

\* C23: isPublic is false exactly when the tweet's own author is protected
\* or the author of some retweeted or quoted tweet nested in it, at any
\* depth, is protected.
C23_PublicIffNoProtectedAuthor ==
    applied = "isPublic"
    => (output = FALSE <=> \E user \in Authors(input) : user.protected)

C23_ProtectedTwoLevelsDown ==
    /\ applied = "isPublic"
    /\ output = FALSE
    /\ ~input.user.protected
    /\ input.retweeted_status = Null
    /\ input.quoted_status # Null
    /\ ~input.quoted_status.user.protected
    /\ input.quoted_status.quoted_status = Null
    /\ input.quoted_status.retweeted_status # Null
    /\ input.quoted_status.retweeted_status.user.protected

(***************************************************************************)
(* newTweets.sort(Tweet.sortByTimestamp) on any batch: a sequence of up to *)
(* MaxFeedLen tweets of the upstream, in any order.                        *)
(***************************************************************************)
Batches == UNION {[1..n -> TweetIDs] : n \in 0..MaxFeedLen}

SortInit ==
    /\ upstream \in {u \in Upstreams : \A id \in 1..Len(u) : u[id].kind = "plain"}
    /\ preexisting = [who \in Identities |-> NoTimestamp]
    /\ EngineIdle
    /\ CollectorUnused
    /\ StreamUnused
    /\ GetUnused
    /\ input \in Batches
    /\ output = Null
    /\ applied = "none"
    /\ ParUnused
    /\ PublishUnused
    /\ ConfigUnused

\* newTweets.sort(Tweet.sortByTimestamp)
ApplySort ==
    /\ applied = "none"
    /\ applied' = "sort"
    /\ output' = SortNewTweets(input)
    /\ UNCHANGED <<input, syncVars, collectVars, streamVars, getVars, parVars, publishVars, configVars>>

SortNext == ApplySort

SortSpec == SortInit /\ [][SortNext]_vars

\* How many times a tweet occurs in a batch.
Count(seq, id) == Cardinality({i \in 1..Len(seq) : seq[i] = id})

\* C24: the sorted batch is non-decreasing in timestamp, and it is a
\* permutation of the batch: every tweet occurs in it as often as in the
\* batch, tweets with equal timestamps included.
C24_SortedPermutation ==
    applied = "sort"
    => /\ \A i \in 1..Len(output) : \A j \in 1..Len(output) :
            i <= j => Ts(output[i]) <= Ts(output[j])
       /\ Len(output) = Len(input)
       /\ \A id \in TweetIDs : Count(output, id) = Count(input, id)

C24_SortedWithTies ==
    /\ applied = "sort"
    /\ Len(input) = MaxFeedLen
    /\ \E i \in 1..Len(input) : \E j \in 1..Len(input) :
            /\ input[i] # input[j]
            /\ Ts(input[i]) = Ts(input[j])
    /\ \E i \in 1..Len(input) : \E j \in 1..Len(input) :
            i < j /\ Ts(input[i]) > Ts(input[j])
    /\ output # input

(***************************************************************************)
(* The watermark of a run.                                                 *)
(***************************************************************************)
\* The timestamps of the POST entries the blog of the running identity had
\* when the run started: what it has now, less what this run has written.
PostsAtStart ==
    (IF preexisting[Who] = NoTimestamp THEN {} ELSE {preexisting[Who]})
    \cup {Ts(id) : id \in {i \in TweetIDs :
                                store[Who][i] > Count(runWrites, i)}}

\* C25: a run reads its watermark once, before it streams: all through the
\* run lastTimestamp is the timestamp of the newest POST entry the blog had
\* at the start (the PROFILE entry, which is newer, is passed over) and is
\* never assigned again; with no POST entry there is no watermark and the
\* loop is never left at a tweet found already published.  The run writes
\* nothing but items: a step that changes the store is a putItem of the
\* tweet in flight, and what the blogs held before is left as it was.
C25_WatermarkReadOnce ==
    /\ [](pc # "idle" =>
            /\ lastTimestamp =
                   IF PostsAtStart = {} THEN NoTimestamp
                   ELSE CHOOSE t \in PostsAtStart :
                            \A u \in PostsAtStart : u <= t
            /\ lastTimestamp = NoTimestamp => stopAt = NoTweet)
    /\ [][/\ (pc # "idle" /\ pc' # "idle" /\ cur' = cur)
                => lastTimestamp' = lastTimestamp
          /\ preexisting' = preexisting
          /\ store' # store =>
                /\ pc = "putItem"
                /\ store' = Stored(store, Who, newTweets[index])]_vars

\* The run has written an item newer than the watermark it read.
C25_WroteBeyondWatermark ==
    /\ pc = "putItem"
    /\ runWrites # <<>>
    /\ lastTimestamp # NoTimestamp
    /\ lastTimestamp < Watermark(Who)

(***************************************************************************)
(* C26.  A tweet whose author is in the skip-set, whatever the letter case *)
(* of the configured name, is never in a batch and never stored, and the   *)
(* loop is never left at such a tweet, one at or before the watermark      *)
(* included: the loop passes over it and reads on.                         *)
(***************************************************************************)
C26_SkipSetPassedOver ==
    /\ \A k \in 1..Len(newTweets) : ~ByUserOfSkipSet(newTweets[k])
    /\ \A who \in Identities : \A id \in TweetIDs :
            Published(who, id) => ~ByUserOfSkipSet(id)
    /\ stopAt # NoTweet => ~ByUserOfSkipSet(stopAt)

\* The home timeline's loop has passed over a tweet of the skip-set that is
\* at or before the watermark, has read on, and was left at an older tweet.
C26_ReadOnAfterSkipped ==
    /\ pc = "copy"
    /\ Who = "home"
    /\ stopAt # NoTweet
    /\ \E id \in TweetIDs :
            /\ id > stopAt
            /\ ByUserOfSkipSet(id)
            /\ AtOrBefore(id, lastTimestamp)

(***************************************************************************)
(* The sync runs of the two identities as interleaved processes.  Each run *)
(* has its own fbClient, userID, lastTimestamp, tClient, newTweets and     *)
(* collector; the config and the options are read by both, and the server  *)
(* keeps one blog per userID.  A step of a run is: its getLatestTimestamp, *)
(* one iteration of its for-await loop, or one putItem.                    *)
(***************************************************************************)
\* A listing that holds the entries of every blog of the server.
ParEntriesOfAll(who) ==
    {Entry(MaxTs + 1, "PROFILE")}
    \cup {Entry(preexisting[w], "POST") :
            w \in {x \in Identities : preexisting[x] # NoTimestamp}}
    \cup {Entry(Ts(id), "POST") :
            id \in UNION {Range(pWrites[w]) : w \in Identities}}

\* The entries of the blog of `who`: what it held, and what has been put.
ParEntries(who) ==
    {Entry(MaxTs + 1, "PROFILE")}
    \cup (IF preexisting[who] = NoTimestamp THEN {}
          ELSE {Entry(preexisting[who], "POST")})
    \cup {Entry(Ts(id), "POST") : id \in Range(pWrites[who])}

ParInit ==
    /\ upstream \in Upstreams
    /\ preexisting \in [Identities -> {NoTimestamp} \cup 1..(MaxTs - 1)]
    /\ maxTweets \in 0..MaxMaxTweets
    /\ store = [who \in Identities |-> [id \in TweetIDs |-> 0]]
    /\ pc = "idle"
    /\ cur = 1
    /\ copyAttachments = FALSE
    /\ lastTimestamp = NoTimestamp
    /\ maxID = NoMaxID
    /\ page = <<>>
    /\ pageIdx = 1
    /\ newTweets = <<>>
    /\ index = 1
    /\ attachments = 0
    /\ error = Null
    /\ ran = {}
    /\ outcome = "none"
    /\ completed = [who \in Identities |-> FALSE]
    /\ prevDone = FALSE
    /\ runWrites = <<>>
    /\ stopAt = NoTweet
    /\ CollectorUnused
    /\ StreamUnused
    /\ GetUnused
    /\ ApplyUnused
    /\ ParUnused
    /\ PublishUnused
    /\ ConfigUnused

\* The run of `who` starts and reads its watermark.
ParEnter(who) ==
    /\ ppc[who] = "idle"
    /\ ppc' = [ppc EXCEPT ![who] = "stream"]
    /\ pLast' = [pLast EXCEPT
                    ![who] = GetLatestTimestamp(NewestFirst(ParEntries(who)))]
    /\ UNCHANGED <<pPos, pBatch, pIndex, pWrites, syncVars, collectVars,
                   streamVars, getVars, applyVars,
                   publishVars, configVars>>

\* One iteration of the run's for-await loop, or its end when the timeline
\* is exhausted; the batch is sorted when the loop is left.
ParNextTweet(who) ==
    /\ ppc[who] = "stream"
    /\ LET timeline == TimelineAPI(who)
           more == pPos[who] < Len(timeline)
           id == timeline[pPos[who] + 1]
           todo == IF more THEN LoopBody(who, Tweet(id), pLast[who])
                   ELSE "break"
           pushed == IF todo = "push" THEN Append(pBatch[who], id)
                     ELSE pBatch[who]
           done == \/ todo = "break"
                   \/ todo = "push" /\ CapReached(pushed, MaxTweetsOf(who))
       IN  /\ pBatch' = [pBatch EXCEPT
                            ![who] = IF done THEN SortNewTweets(pushed)
                                     ELSE pushed]
           /\ pPos' = [pPos EXCEPT ![who] = IF more THEN @ + 1 ELSE @]
           /\ ppc' = [ppc EXCEPT ![who] = IF done THEN "copy" ELSE "stream"]
           /\ pIndex' = [pIndex EXCEPT ![who] = IF done THEN 1 ELSE @]
    /\ UNCHANGED <<pLast, pWrites, syncVars, collectVars, streamVars,
                   getVars, applyVars,
                   publishVars, configVars>>

\* The run stores the next tweet of its batch in its blog.
ParPutItem(who) ==
    /\ ppc[who] = "copy"
    /\ pIndex[who] <= Len(pBatch[who])
    /\ pWrites' = [pWrites EXCEPT
                      ![who] = Append(@, pBatch[who][pIndex[who]])]
    /\ pIndex' = [pIndex EXCEPT ![who] = @ + 1]
    /\ UNCHANGED <<ppc, pPos, pLast, pBatch, syncVars, collectVars,
                   streamVars, getVars, applyVars,
                   publishVars, configVars>>

\* toItem or putItem throws: the run is over.
ParFail(who) ==
    /\ ppc[who] = "copy"
    /\ pIndex[who] <= Len(pBatch[who])
    /\ ppc' = [ppc EXCEPT ![who] = "failed"]
    /\ UNCHANGED <<pPos, pLast, pBatch, pIndex, pWrites, syncVars,
                   collectVars, streamVars, getVars, applyVars,
                   publishVars, configVars>>

\* The batch is exhausted: the sync function returns.
ParReturn(who) ==
    /\ ppc[who] = "copy"
    /\ pIndex[who] > Len(pBatch[who])
    /\ ppc' = [ppc EXCEPT ![who] = "done"]
    /\ UNCHANGED <<pPos, pLast, pBatch, pIndex, pWrites, syncVars,
                   collectVars, streamVars, getVars, applyVars,
                   publishVars, configVars>>

ParNext ==
    \E who \in Identities :
        \/ ParEnter(who)
        \/ ParNextTweet(who)
        \/ ParPutItem(who)
        \/ ParFail(who)
        \/ ParReturn(who)

ParSpec == ParInit /\ [][ParNext]_vars

\* What the for-await loop of `who` accumulates from `timeline`, run on its
\* own with watermark `last`, having accumulated `batch`.
RECURSIVE Accumulated(_, _, _, _)
Accumulated(who, timeline, last, batch) ==
    IF timeline = <<>> THEN batch
    ELSE LET todo == LoopBody(who, Tweet(Head(timeline)), last)
             pushed == Append(batch, Head(timeline))
         IN  CASE todo = "break" -> batch
               [] todo = "continue" ->
                    Accumulated(who, Tail(timeline), last, batch)
               [] todo = "push" ->
                    IF CapReached(pushed, MaxTweetsOf(who)) THEN pushed
                    ELSE Accumulated(who, Tail(timeline), last, pushed)

\* The writes of the run of `who` when no other run runs with it.
WritesAlone(who) ==
    SortNewTweets(Accumulated(who, TimelineAPI(who), preexisting[who], <<>>))

MaxPieces == 4

\* {2,15} in MENTION_PAT.
MinHandle == 2
MaxHandle == 15

\* [a-z0-9_] and \w, among the characters of the model ("l", "t" are those
\* of "&lt;").
WordChars == {"a", "h", "l", "p", "s", "t", "x"}
\* \s
Spaces == {" ", "\n"}

\* The markup getTextAsHTML inserts.
AOpen == "<a href=\""
AMid == "\">"
AClose == "</a>"
Br == "<br>"
TwitterCom == "https://twitter.com/"

RECURSIVE Repeat(_, _)
Repeat(c, n) == IF n = 0 THEN <<>> ELSE <<c>> \o Repeat(c, n - 1)

Pieces ==
    { <<"h", "t", "t", "p", ":", "/", "/", "a">>,
      <<"@", "x", "x">>,
      <<"@">>,
      <<"x">>,
      Repeat("x", MaxHandle - MinHandle),
      <<".">>,
      <<" ">>,
      <<")">>,
      <<"<">>,
      <<"\n">> }

RECURSIVE Texts(_)
Texts(n) ==
    IF n = 0 THEN {<<>>}
    ELSE LET shorter == Texts(n - 1)
         IN  shorter \cup {p \o t : p \in Pieces, t \in shorter}

StartsWith(text, i, literal) ==
    /\ i + Len(literal) - 1 <= Len(text)
    /\ \A k \in 1..Len(literal) : text[i + k - 1] = literal[k]

\* The length of the longest run, from position i on, of characters that
\* are (when `inside`) or are not in `chars`; at most `most` long.
RECURSIVE RunLength(_, _, _, _, _)
RunLength(text, i, chars, inside, most) ==
    IF most = 0 \/ i > Len(text) \/ (text[i] \in chars) # inside THEN 0
    ELSE 1 + RunLength(text, i + 1, chars, inside, most - 1)

\* A character class for the URL's run that stops at whitespace only.
WhitespaceOnly == Spaces

\* What [^)"\s] excludes.
URLStops == {")", "\""} \cup Spaces

\* \bhttps?:\/\/[^)"\s]+ matched at position i: the length of the match, 0
\* when there is none.
URLMatch(text, i) ==
    LET scheme == IF StartsWith(text, i, <<"h", "t", "t", "p", "s", ":", "/", "/">>)
                  THEN 8
                  ELSE IF StartsWith(text, i, <<"h", "t", "t", "p", ":", "/", "/">>)
                  THEN 7
                  ELSE 0
        run == RunLength(text, i + scheme, URLStops, FALSE, Len(text))
    IN  IF /\ i = 1 \/ text[i - 1] \notin WordChars
           /\ scheme > 0
           /\ run > 0
        THEN scheme + run
        ELSE 0

\* A lookbehind that lets any '.' stand before the '@'.
AfterAnyDot(text, i) ==
    \/ i = 1
    \/ text[i - 1] = "."
    \/ text[i - 1] \in Spaces

\* (?<=^[.]?|\s): position i is the start of the text, follows a '.' that
\* starts the text, or follows whitespace.
Lookbehind(text, i) ==
    \/ i = 1
    \/ i = 2 /\ text[1] = "."
    \/ text[i - 1] \in Spaces

\* (?<=^[.]?|\s)@([a-z0-9_]{2,15}) matched at position i.
MentionMatch(text, i) ==
    LET handle == RunLength(text, i + 1, WordChars, TRUE, MaxHandle)
    IN  IF /\ text[i] = "@"
           /\ Lookbehind(text, i)
           /\ handle >= MinHandle
        THEN 1 + handle
        ELSE 0

MatchAt(pat, text, i) ==
    IF pat = "URL_PAT" THEN URLMatch(text, i) ELSE MentionMatch(text, i)

\* [...text.matchAll(pat)] from position i on: each match is its index, its
\* length and what it matched.
RECURSIVE MatchAll(_, _, _)
MatchAll(text, pat, i) ==
    IF i > Len(text) THEN <<>>
    ELSE LET n == MatchAt(pat, text, i)
         IN  IF n = 0 THEN MatchAll(text, pat, i + 1)
             ELSE <<[index |-> i, len |-> n,
                     match |-> SubSeq(text, i, i + n - 1)]>>
                  \o MatchAll(text, pat, i + n)

\* The mappers of getTextAsHTML.
Mapper(pat, m) ==
    IF pat = "URL_PAT"
    THEN <<AOpen>> \o m.match \o <<AMid>> \o m.match \o <<AClose>>
    ELSE LET userName == Tail(m.match)
         IN  <<AOpen, TwitterCom>> \o userName \o <<AMid, "@">> \o userName
             \o <<AClose>>

ReplaceMatch(original, m, newValue) ==
    SubSeq(original, 1, m.index - 1) \o newValue
    \o SubSeq(original, m.index + m.len, Len(original))

\* A loop over the matches in the order of the text: the first of
\* `matches` is replaced first, and the later ones at their old offsets.
RECURSIVE ReplaceMatchesForward(_, _, _)
ReplaceMatchesForward(text, pat, matches) ==
    IF matches = <<>> THEN text
    ELSE ReplaceMatchesForward(
            ReplaceMatch(text, Head(matches), Mapper(pat, Head(matches))),
            pat, Tail(matches))

\* The loop of replaceAll over the reversed matches: the last of `matches`
\* is replaced first.
RECURSIVE ReplaceMatches(_, _, _)
ReplaceMatches(text, pat, matches) ==
    IF matches = <<>> THEN text
    ELSE LET m == matches[Len(matches)]
         IN  ReplaceMatches(ReplaceMatch(text, m, Mapper(pat, m)), pat,
                            SubSeq(matches, 1, Len(matches) - 1))

ReplaceAll(text, pat) == ReplaceMatches(text, pat, MatchAll(text, pat, 1))

\* String.replace(from, to): the first occurrence only.
RECURSIVE StringReplaceFirst(_, _, _)
StringReplaceFirst(text, from, to) ==
    IF text = <<>> THEN <<>>
    ELSE IF Head(text) = from THEN to \o Tail(text)
    ELSE <<Head(text)>> \o StringReplaceFirst(Tail(text), from, to)

\* String.replaceAll(from, to) for a one-character `from`.
RECURSIVE StringReplaceAll(_, _, _)
StringReplaceAll(text, from, to) ==
    IF text = <<>> THEN <<>>
    ELSE (IF Head(text) = from THEN to ELSE <<Head(text)>>)
         \o StringReplaceAll(Tail(text), from, to)

\* getTextAsHTML: the value of `text` after each of its four steps.
GetTextAsHTML(text) ==
    LET escaped == StringReplaceAll(text, "<", <<"&", "l", "t", ";">>)
        urls == ReplaceAll(escaped, "URL_PAT")
        mentions == ReplaceAll(urls, "MENTION_PAT")
    IN  [escaped |-> escaped, urls |-> urls, mentions |-> mentions,
         html |-> StringReplaceAll(mentions, "\n", <<"\n", Br>>)]

TextInit ==
    /\ upstream = <<>>
    /\ preexisting = [who \in Identities |-> NoTimestamp]
    /\ EngineIdle
    /\ CollectorUnused
    /\ StreamUnused
    /\ GetUnused
    /\ input \in Texts(MaxPieces)
    /\ output = Null
    /\ applied = "none"
    /\ ParUnused
    /\ PublishUnused
    /\ ConfigUnused

\* tweet.getTextAsHTML()
ApplyGetTextAsHTML ==
    /\ applied = "none"
    /\ applied' = "getTextAsHTML"
    /\ output' = GetTextAsHTML(input)
    /\ UNCHANGED <<input, syncVars, collectVars, streamVars, getVars, parVars, publishVars, configVars>>

TextNext == ApplyGetTextAsHTML

TextSpec == TextInit /\ [][TextNext]_vars

(***************************************************************************)
(* Reading the HTML: its anchors, and the text a reader sees.              *)
(***************************************************************************)
FirstIndex(seq, c) ==
    CHOOSE j \in 1..Len(seq) : seq[j] = c /\ \A i \in 1..(j - 1) : seq[i] # c

\* The anchors of the HTML, in order: each one's href and text.
RECURSIVE AnchorSeq(_)
AnchorSeq(html) ==
    IF html = <<>> THEN <<>>
    ELSE IF Head(html) # AOpen THEN AnchorSeq(Tail(html))
    ELSE LET mid == FirstIndex(html, AMid)
             close == FirstIndex(html, AClose)
         IN  <<[href |-> SubSeq(html, 2, mid - 1),
                text |-> SubSeq(html, mid + 1, close - 1)]>>
             \o AnchorSeq(SubSeq(html, close + 1, Len(html)))

IsMentionAnchor(a) == a.href # <<>> /\ Head(a.href) = TwitterCom
IsURLAnchor(a) == ~IsMentionAnchor(a)

\* The HTML without its anchors' tags: each anchor stands as its text.
RECURSIVE Visible(_, _)
Visible(html, inHref) ==
    IF html = <<>> THEN <<>>
    ELSE IF Head(html) = AOpen THEN Visible(Tail(html), TRUE)
    ELSE IF Head(html) \in {AMid, AClose} THEN Visible(Tail(html), FALSE)
    ELSE IF inHref THEN Visible(Tail(html), TRUE)
    ELSE <<Head(html)>> \o Visible(Tail(html), FALSE)

\* Position k of the HTML is outside every anchor.
OutsideAnchors(html, k) ==
    /\ html[k] \notin {AOpen, AMid, AClose}
    /\ \A o \in 1..(k - 1) :
            html[o] = AOpen => \E c \in (o + 1)..(k - 1) : html[c] = AClose

\* The characters that end a URL: whitespace, a double quote, ')'.
NotInURL == {" ", "\n", "\"", ")"}

\* At position k stands scheme, '://' and a character a URL may hold.
URLStartsAt(text, k) ==
    \E scheme \in {<<"h", "t", "t", "p", ":", "/", "/">>,
                   <<"h", "t", "t", "p", "s", ":", "/", "/">>} :
        /\ StartsWith(text, k, scheme)
        /\ k + Len(scheme) <= Len(text)
        /\ text[k + Len(scheme)] \notin NotInURL

\* A word boundary before position k (whose character is a letter).
AtWordBoundary(text, k) == k = 1 \/ text[k - 1] \notin WordChars

\* What the URL step does with the URLs it links: each anchor's href and
\* text are one URL, a whole run; the text outside the anchors is the text
\* as it was; and the anchors are there in the HTML returned.
URLAnchorsExact ==
    /\ Visible(output.urls, FALSE) = output.escaped
    /\ \A n \in 1..Len(AnchorSeq(output.urls)) :
            LET a == AnchorSeq(output.urls)[n]
            IN  /\ a.href = a.text
                /\ URLStartsAt(a.text, 1)
                /\ \A k \in 1..Len(a.text) : a.text[k] \notin NotInURL
    /\ \A k \in 1..Len(output.urls) :
            (output.urls[k] = AClose /\ k < Len(output.urls))
                => output.urls[k + 1] \in NotInURL
    /\ SelectSeq(AnchorSeq(output.html), IsURLAnchor) = AnchorSeq(output.urls)

\* C28 as stated: every scheme + '://' + run of the text is in an anchor
\* whose href and text are that URL, one anchor per URL, and the text
\* outside the anchors is unchanged.
C28_EveryURLLinked ==
    applied = "getTextAsHTML"
    => /\ URLAnchorsExact
       /\ \A k \in 1..Len(output.urls) :
            OutsideAnchors(output.urls, k) => ~URLStartsAt(output.urls, k)

\* C28, amended: every scheme + '://' + run that starts at a word boundary
\* (at the start of the text, or after a character that is not a letter, a
\* digit or '_') is in an anchor whose href and text are that URL, one
\* anchor per URL, and the text outside the anchors is unchanged.
C28_EveryURLAtBoundaryLinked ==
    applied = "getTextAsHTML"
    => /\ URLAnchorsExact
       /\ \A k \in 1..Len(output.urls) :
            (OutsideAnchors(output.urls, k) /\ AtWordBoundary(output.urls, k))
                => ~URLStartsAt(output.urls, k)

\* A text with a URL followed by ')', linked, and a second URL that follows
\* a letter, left as it is.
C28_LinkedAndUnlinked ==
    /\ applied = "getTextAsHTML"
    /\ Len(AnchorSeq(output.urls)) = 1
    /\ \E k \in 1..(Len(output.html) - 1) :
            output.html[k] = AClose /\ output.html[k + 1] = ")"
    /\ \E k \in 1..Len(output.urls) :
            /\ OutsideAnchors(output.urls, k)
            /\ URLStartsAt(output.urls, k)

(***************************************************************************)
(* C29.  Mention linking, on the text as the URL step leaves it: every     *)
(* anchor it makes has the text '@' + handle and the href                  *)
(* https://twitter.com/ + handle, the handle being 2 to 15 letters, digits *)
(* or '_'; the anchor is at the start of the text, directly after a '.'    *)
(* that starts the text, or directly after whitespace, and nowhere else;   *)
(* an '@' in one of these places with 2 or more such characters after it   *)
(* is in an anchor; the rest of the text, a leading '.' included, is       *)
(* outside the anchors and unchanged.                                      *)
(***************************************************************************)
MentionPlace(html, k) ==
    \/ k = 1
    \/ k = 2 /\ html[1] = "."
    \/ html[k - 1] \in {" ", "\n"}

MaxEntities == 2
\* Tokens in one full_text.
MaxTokens == 2

\* The short code of the entity at position k of entities.urls, and that
\* of the media entity.
ShortCode(k) == <<"https://t.co/", <<"a", "b", "c", "d">>[k]>>
MediaCode == <<"https://t.co/", "m">>

Digits == {"1", "2"}

\* Tweet.url
TweetURL(json) ==
    <<"https://twitter.com/", json.user.screen_name, "/status/", json.id_str>>

\* The quoted tweets: one by @amy with ID 1, and one whose id_str holds no
\* digit.
QuotedTweets ==
    {[user |-> UserJSON("amy", FALSE), id_str |-> id] : id \in {"1", ""}}

\* What an entity may expand to: the URL of the quoted tweet, the same with
\* a query string, with the author's former handle, in another letter case,
\* the URL of another tweet, and a URL that is not of a tweet.
ExpandedURLs ==
    { <<"https://twitter.com/", "amy", "/status/", "1">>,
      <<"https://twitter.com/", "amy", "/status/", "1", "?s=20">>,
      <<"https://twitter.com/", "old", "/status/", "1">>,
      <<"https://twitter.com/", "amy", "/Status/", "1">>,
      <<"https://twitter.com/", "amy", "/status/", "2">>,
      <<"https://example.com/", "foo">> }

EntityLists ==
    UNION {{urls \in [1..n -> [url : {"code"}, expanded_url : ExpandedURLs]] :
                TRUE} : n \in 0..MaxEntities}

\* entities.urls with the short code of each entity filled in.
WithShortCodes(urls) ==
    [k \in 1..Len(urls) |->
        [url |-> ShortCode(k), expanded_url |-> urls[k].expanded_url]]

Tokens == {<<"hi">>, MediaCode} \cup {ShortCode(k) : k \in 1..MaxEntities}

RECURSIVE Concat(_)
Concat(seqs) == IF seqs = <<>> THEN <<>> ELSE Head(seqs) \o Concat(Tail(seqs))

FullTexts == UNION {{Concat(t) : t \in [1..n -> Tokens]} : n \in 0..MaxTokens}

QuoteTweetJSONs ==
    [user : {UserJSON("amy", FALSE)},
     id_str : {"3"},
     full_text : FullTexts,
     quoted_status : {Null} \cup QuotedTweets,
     urls : {WithShortCodes(urls) : urls \in EntityLists},
     media : {<<>>, <<[url |-> MediaCode]>>}]

\* /i on the part "/status/".
IgnoreCase(part) == IF part = "/Status/" THEN "/status/" ELSE part

\* The undefined of statusIDFromURL.
NoStatusID == ""

\* statusIDFromURL: STATUS_PAT.exec(url), and match[1].
StatusIDFromURL(url) ==
    LET found == {i \in 1..(Len(url) - 1) :
                    IgnoreCase(url[i]) = "/status/" /\ url[i + 1] \in Digits}
    IN  IF found = {} THEN NoStatusID
        ELSE url[(CHOOSE i \in found : \A j \in found : i <= j) + 1]

\* entities?.urls.find(it => statusIDFromURL(it.expanded_url) === statusID),
\* and its url: NoStatusID when there is none.
FindQTShortURL(json) ==
    LET statusID == StatusIDFromURL(TweetURL(json.quoted_status))
        found == {k \in 1..Len(json.urls) :
                    StatusIDFromURL(json.urls[k].expanded_url) = statusID}
    IN  IF found = {} THEN <<>>
        ELSE json.urls[CHOOSE k \in found : \A j \in found : k <= j].url

\* String.replaceAll(from, to) on tokens: `from` is a short code.
RECURSIVE ReplaceCode(_, _, _)
ReplaceCode(text, from, to) ==
    IF Len(text) < Len(from) THEN text
    ELSE IF SubSeq(text, 1, Len(from)) = from
         THEN to \o ReplaceCode(SubSeq(text, Len(from) + 1, Len(text)), from, to)
    ELSE <<Head(text)>> \o ReplaceCode(Tail(text), from, to)

\* for (const urlMeta of entities.urls) text = text.replaceAll(url, expanded_url)
RECURSIVE ExpandAll(_, _)
ExpandAll(text, urls) ==
    IF urls = <<>> THEN text
    ELSE ExpandAll(ReplaceCode(text, Head(urls).url, Head(urls).expanded_url),
                   Tail(urls))

RECURSIVE RemoveMedia(_, _)
RemoveMedia(text, media) ==
    IF media = <<>> THEN text
    ELSE RemoveMedia(ReplaceCode(text, Head(media).url, <<>>), Tail(media))

\* A getText that fails hard also when no entity correlates with the quote.
GetTextFailHard(json) ==
    LET qt == json.quoted_status
        threw == qt # Null /\ (\/ StatusIDFromURL(TweetURL(qt)) = NoStatusID
                               \/ FindQTShortURL(json) = <<>>)
        shortURL == IF qt = Null \/ threw THEN <<>> ELSE FindQTShortURL(json)
        unquoted == IF shortURL = <<>> THEN json.full_text
                    ELSE ReplaceCode(json.full_text, shortURL, <<>>)
    IN  IF threw THEN [threw |-> TRUE, warned |-> FALSE, text |-> <<>>]
        ELSE [threw |-> FALSE, warned |-> FALSE,
              text |-> RemoveMedia(ExpandAll(unquoted, json.urls), json.media)]

\* getText: what it returns, whether it warned that no entity is the quote's
\* URL, and whether it threw.
GetText(json) ==
    LET qt == json.quoted_status
        threw == qt # Null /\ StatusIDFromURL(TweetURL(qt)) = NoStatusID
        shortURL == IF qt = Null \/ threw THEN <<>> ELSE FindQTShortURL(json)
        warned == qt # Null /\ ~threw /\ shortURL = <<>>
        unquoted == IF shortURL = <<>> THEN json.full_text
                    ELSE ReplaceCode(json.full_text, shortURL, <<>>)
    IN  IF threw THEN [threw |-> TRUE, warned |-> FALSE, text |-> <<>>]
        ELSE [threw |-> FALSE, warned |-> warned,
              text |-> RemoveMedia(ExpandAll(unquoted, json.urls), json.media)]

QuoteInit ==
    /\ upstream = <<>>
    /\ preexisting = [who \in Identities |-> NoTimestamp]
    /\ EngineIdle
    /\ CollectorUnused
    /\ StreamUnused
    /\ GetUnused
    /\ input \in QuoteTweetJSONs
    /\ output = Null
    /\ applied = "none"
    /\ ParUnused
    /\ PublishUnused
    /\ ConfigUnused

\* tweet.getText()
ApplyGetText ==
    /\ applied = "none"
    /\ applied' = "getText"
    /\ output' = GetText(input)
    /\ UNCHANGED <<input, syncVars, collectVars, streamVars, getVars, parVars, publishVars, configVars>>

QuoteNext == ApplyGetText

QuoteSpec == QuoteInit /\ [][QuoteNext]_vars

\* The entities whose expanded URL carries the status-ID of the quoted
\* tweet.
Correlated(json) ==
    {k \in 1..Len(json.urls) :
        \E i \in 1..(Len(json.urls[k].expanded_url) - 1) :
            /\ json.urls[k].expanded_url[i] \in {"/status/", "/Status/"}
            /\ json.urls[k].expanded_url[i + 1] = json.quoted_status.id_str}

\* C30: when the tweet quotes a tweet and an entity's expanded URL carries
\* the quoted tweet's status-ID (with a query string, another handle or
\* another letter case or without), the short code of that entity is not in
\* the text getText returns, and neither is a URL of the quoted tweet: no
\* '/status/' followed by its ID.
C30_QuoteURLRemoved ==
    (/\ applied = "getText"
     /\ input.quoted_status # Null
     /\ input.quoted_status.id_str \in Digits
     /\ Correlated(input) # {})
    => /\ ~output.threw
       /\ \A k \in Correlated(input) :
            \A i \in 1..(Len(output.text) - 1) :
                SubSeq(output.text, i, i + 1) # input.urls[k].url
       /\ \A i \in 1..(Len(output.text) - 1) :
            ~(/\ output.text[i] \in {"/status/", "/Status/"}
              /\ output.text[i + 1] = input.quoted_status.id_str)

\* C33: when the tweet quotes a tweet whose URL has a status-ID and no
\* entity's expanded URL carries that ID, getText returns, and returns the
\* text it returns for the same tweet without the quote: nothing is removed
\* for the quote, the short codes are expanded and the media links removed
\* as usual.  When the URL of the quoted tweet has no status-ID, getText
\* throws.
C33_UncorrelatedQuoteRenders ==
    (applied = "getText" /\ input.quoted_status # Null)
    => /\ (input.quoted_status.id_str \in Digits /\ Correlated(input) = {})
            => /\ ~output.threw
               /\ output.text
                    = GetText([input EXCEPT !.quoted_status = Null]).text
       /\ input.quoted_status.id_str \notin Digits => output.threw

\* getText has returned for a quoting tweet none of whose two entities
\* correlates with the quote, and has expanded a short code of the text.
C33_RenderedWithoutCorrelation ==
    /\ applied = "getText"
    /\ input.quoted_status # Null
    /\ input.quoted_status.id_str \in Digits
    /\ Len(input.urls) = 2
    /\ Correlated(input) = {}
    /\ ~output.threw
    /\ output.text # input.full_text

\* The text with all the matches of the pattern replaced at once: read from
\* position i on, what is not in a match is kept, and each leftmost match
\* of the text gives way to what the mapper makes of it.
RECURSIVE Simultaneous(_, _, _)
Simultaneous(text, pat, i) ==
    IF i > Len(text) THEN <<>>
    ELSE LET n == MatchAt(pat, text, i)
         IN  IF n = 0 THEN <<text[i]>> \o Simultaneous(text, pat, i + 1)
             ELSE Mapper(pat, [index |-> i, len |-> n,
                               match |-> SubSeq(text, i, i + n - 1)])
                  \o Simultaneous(text, pat, i + n)

\* C34: what replaceAll returns, for the URL pattern and for the mention
\* pattern, is the text it was given with all the non-overlapping
\* leftmost-first matches replaced at once: the text between the matches is
\* unchanged and each match stands replaced by its mapper's value.
C34_ReplaceAllIsSimultaneous ==
    applied = "getTextAsHTML"
    => /\ output.urls = Simultaneous(output.escaped, "URL_PAT", 1)
       /\ output.mentions = Simultaneous(output.urls, "MENTION_PAT", 1)

\* replaceAll has replaced two URLs of one text, or two mentions.
C34_TwoMatchesReplaced ==
    /\ applied = "getTextAsHTML"
    /\ \/ Len(MatchAll(output.escaped, "URL_PAT", 1)) = 2
       \/ Len(MatchAll(output.urls, "MENTION_PAT", 1)) = 2

\* The text with each '&lt;' read back as '<'.
RECURSIVE Unescape(_)
Unescape(text) ==
    IF text = <<>> THEN <<>>
    ELSE IF StartsWith(text, 1, <<"&", "l", "t", ";">>)
         THEN <<"<">> \o Unescape(SubSeq(text, 5, Len(text)))
    ELSE <<Head(text)>> \o Unescape(Tail(text))

NotBr(c) == c # Br

\* C35: no '<' character of the text is in the HTML getTextAsHTML returns:
\* the HTML without the anchors' tags and the line-break markers is the
\* text with every '<' as '&lt;', a line-break marker stands after every
\* line feed and nowhere else, and a handle that follows a line feed is
\* linked, the marker being put in after the linking.
C35_EveryLessThanEscaped ==
    applied = "getTextAsHTML"
    => LET html == output.html
           shown == SelectSeq(Visible(html, FALSE), NotBr)
       IN  /\ \A k \in 1..Len(html) : html[k] # "<"
           /\ Unescape(shown) = input
           /\ \A k \in 1..Len(shown) :
                shown[k] = "&" => StartsWith(shown, k, <<"&", "l", "t", ";">>)
           /\ \A k \in 1..Len(html) :
                /\ html[k] = Br => k > 1 /\ html[k - 1] = "\n"
                /\ html[k] = "\n" => k < Len(html) /\ html[k + 1] = Br
                /\ (html[k] = Br /\ k + 3 <= Len(html) /\ html[k + 1] = "@")
                    => ~(html[k + 2] \in WordChars /\ html[k + 3] \in WordChars)

\* A text with two '<', one of them in a URL, and a line feed has been
\* converted.
C35_EscapedInsideAnchor ==
    /\ applied = "getTextAsHTML"
    /\ Len(SelectSeq(input, LAMBDA c : c = "<")) = 2
    /\ \E k \in 1..Len(input) : input[k] = "\n"
    /\ \E n \in 1..Len(AnchorSeq(output.html)) :
            \E k \in 1..Len(AnchorSeq(output.html)[n].href) :
                AnchorSeq(output.html)[n].href[k] = "&"

(***************************************************************************)
(* C31.  Every wait before a retry is positive: when a 429 with no calls   *)
(* remaining starts delay(waitMs), also one whose reset time is in the     *)
(* past, the delay ends later than the time at which it starts.            *)
(***************************************************************************)
C31_PositiveWaitBeforeRetry ==
    [][(gpc = "await" /\ gpc' = "delay") => wakeAt' > now]_vars

(***************************************************************************)
(* Tweet.toHTML on a tweet with media.  The tweet object is rendered, and  *)
(* then rendered again: variants.sort sorts the array of the object in     *)
(* place.  A collector's decisions are what its tryAddURL calls return, in *)
(* the order of the calls: the path of a copied file, or the URL.          *)
(***************************************************************************)
\* Media entities of one tweet.
MaxMedia == 1
\* Variants of one video.
MaxVariants == 2
\* Declared bitrates are 0..MaxBitrate.
MaxBitrate == 1

\* A variant that declares no bitrate.
NoBitrate == -1

VariantNames == <<"v1", "v2", "v3">>
ImageNames == <<"img1", "img2">>

VariantLists ==
    UNION {{[k \in 1..n |-> [bitrate |-> b[k], url |-> VariantNames[k]]] :
                b \in [1..n -> {NoBitrate} \cup 0..MaxBitrate]}
           : n \in 0..MaxVariants}

MediaLists ==
    UNION {{[k \in 1..n |-> [media_url_https |-> ImageNames[k],
                             video_info |-> v[k]]] :
                v \in [1..n -> {Null} \cup
                                {[variants |-> l] : l \in VariantLists}]}
           : n \in 0..MaxMedia}

\* The quoted tweet of the model: one photo.
QuotedWithPhoto ==
    [media |-> <<[media_url_https |-> "img9", video_info |-> Null]>>,
     quoted_status |-> Null]

MediaTweetJSONs ==
    [media : MediaLists, quoted_status : {Null, QuotedWithPhoto}]

Decisions == [1..(2 * MaxMedia) -> {"file", "url"}]

\* A comparator that sorts the lowest bitrate first.
LowestBitrateFirst(a, b) ==
    (IF a.bitrate = NoBitrate THEN 0 ELSE a.bitrate)
    - (IF b.bitrate = NoBitrate THEN 0 ELSE b.bitrate)

\* (a, b) => (b.bitrate || 0) - (a.bitrate || 0)
CompareVariants(a, b) ==
    (IF b.bitrate = NoBitrate THEN 0 ELSE b.bitrate)
    - (IF a.bitrate = NoBitrate THEN 0 ELSE a.bitrate)

\* An insertion that puts a variant before those it compares equal to.
RECURSIVE InsertVariantBeforeEquals(_, _)
InsertVariantBeforeEquals(x, sorted) ==
    IF sorted = <<>> THEN <<x>>
    ELSE IF CompareVariants(Head(sorted), x) < 0
         THEN <<Head(sorted)>> \o InsertVariantBeforeEquals(x, Tail(sorted))
    ELSE <<x>> \o sorted

\* Array.prototype.sort(compare) on variants: a stable sort.
RECURSIVE InsertVariant(_, _)
InsertVariant(x, sorted) ==
    IF sorted = <<>> THEN <<x>>
    ELSE IF CompareVariants(Head(sorted), x) <= 0
         THEN <<Head(sorted)>> \o InsertVariant(x, Tail(sorted))
    ELSE <<x>> \o sorted

RECURSIVE SortVariants(_)
SortVariants(variants) ==
    IF variants = <<>> THEN <<>>
    ELSE InsertVariant(variants[Len(variants)],
                       SortVariants(SubSeq(variants, 1, Len(variants) - 1)))

\* What tryAddURL returns: the markdown path of the copy, or the URL.
TryAddURLResult(decision, url) ==
    IF decision = "file" THEN <<"files/", url>> ELSE <<url>>

\* The object's media after toHTML: each video's variants are sorted.
MediaAfter(media) ==
    [k \in 1..Len(media) |->
        IF media[k].video_info = Null THEN media[k]
        ELSE [media[k] EXCEPT
                !.video_info.variants = SortVariants(@)]]

\* The tryAddURL calls made for the media before position k.
RECURSIVE CallsBefore(_, _)
CallsBefore(media, k) ==
    IF k = 1 THEN 0
    ELSE CallsBefore(media, k - 1)
         + (IF /\ media[k - 1].video_info # Null
               /\ media[k - 1].video_info.variants # <<>>
            THEN 2 ELSE 1)

\* The <p>...<a href=linkHref><img src=imgSrc></a> line of media k;
\* decisions[n] is what makes the return value of the n-th tryAddURL call.
MediaLine(media, k, decisions) ==
    LET first == CallsBefore(media, k) + 1
        imgSrc == TryAddURLResult(decisions[first], media[k].media_url_https)
        variants == IF media[k].video_info = Null THEN <<>>
                    ELSE SortVariants(media[k].video_info.variants)
    IN  IF variants = <<>>
        THEN [prefix |-> "", linkHref |-> imgSrc, imgSrc |-> imgSrc]
        ELSE [prefix |-> "Video: ",
              linkHref |-> TryAddURLResult(decisions[first + 1], variants[1].url),
              imgSrc |-> imgSrc]

\* toHTML of a tweet that is not a retweet: the lines of its media, and the
\* HTML of its quoted tweet, rendered with forQuoteTweet(): a collector
\* whose tryAddURL returns the URL.
ToHTML(json, decisions) ==
    LET qt == json.quoted_status
        passes == [n \in 1..(2 * Len(qt.media)) |-> "url"]
    IN  [media |-> [k \in 1..Len(json.media) |->
                        MediaLine(json.media, k, decisions)],
         quoted |-> IF qt = Null THEN <<>>
                    ELSE [k \in 1..Len(qt.media) |->
                            MediaLine(qt.media, k, passes)]]

RenderInit ==
    /\ upstream = <<>>
    /\ preexisting = [who \in Identities |-> NoTimestamp]
    /\ EngineIdle
    /\ CollectorUnused
    /\ StreamUnused
    /\ GetUnused
    /\ \E json \in MediaTweetJSONs : \E decisions \in Decisions :
        /\ input = [json |-> json, decisions |-> decisions]
        /\ output = [json |-> json, html |-> <<>>]
    /\ applied = "none"
    /\ ParUnused
    /\ PublishUnused
    /\ ConfigUnused

\* await tweet.toHTML({attachments})
ApplyToHTML ==
    /\ applied = "none"
    /\ applied' = "toHTML"
    /\ output' = [json |-> [output.json EXCEPT !.media = MediaAfter(@)],
                  html |-> <<ToHTML(output.json, input.decisions)>>]
    /\ UNCHANGED <<input, syncVars, collectVars, streamVars, getVars, parVars, publishVars, configVars>>

\* toHTML again, on the same object and with a collector that decides as
\* the first did.
ApplyToHTMLAgain ==
    /\ applied = "toHTML"
    /\ applied' = "toHTML twice"
    /\ output' = [json |-> [output.json EXCEPT !.media = MediaAfter(@)],
                  html |-> Append(output.html,
                                  ToHTML(output.json, input.decisions))]
    /\ UNCHANGED <<input, syncVars, collectVars, streamVars, getVars, parVars, publishVars, configVars>>

RenderNext == ApplyToHTML \/ ApplyToHTMLAgain

RenderSpec == RenderInit /\ [][RenderNext]_vars

\* The bitrate a variant counts with.
Declared(v) == IF v.bitrate = NoBitrate THEN 0 ELSE v.bitrate

\* The variant the link of a video is to point to: of those with the highest
\* bitrate, the first in the order of the source.
Best(variants) ==
    LET top == {i \in 1..Len(variants) :
                    \A j \in 1..Len(variants) :
                        Declared(variants[j]) <= Declared(variants[i])}
    IN  variants[CHOOSE i \in top : \A j \in top : i <= j]

\* C32: in every rendering of the tweet, the first and the second, the link
\* of each video with variants points to the variant with the highest
\* bitrate (none declared counting as 0), and among several with the
\* highest, or when none declares one, to the first in source order.
C32_HighestBitrateFirstInOrder ==
    applied # "none"
    => \A r \in 1..Len(output.html) :
       \A k \in 1..Len(input.json.media) :
            LET info == input.json.media[k].video_info
                line == output.html[r].media[k]
            IN  (info # Null /\ info.variants # <<>>)
                => /\ line.prefix = "Video: "
                   /\ line.linkHref[Len(line.linkHref)]
                        = Best(info.variants).url

\* A video whose two variants have the same highest bitrate, the second one
\* declaring none, has been rendered twice.
C32_TieRenderedTwice ==
    /\ applied = "toHTML twice"
    /\ Len(input.json.media) = 1
    /\ input.json.media[1].video_info # Null
    /\ Len(input.json.media[1].video_info.variants) = 2
    /\ input.json.media[1].video_info.variants[1].bitrate = 0
    /\ input.json.media[1].video_info.variants[2].bitrate = NoBitrate

\* C36: the second rendering of a tweet object, by a collector whose
\* tryAddURL calls return what the first one's returned, gives the HTML the
\* first rendering gave, although the first has sorted the variants of the
\* object's videos in place.
C36_SecondRenderingIdentical ==
    applied = "toHTML twice" => output.html[1] = output.html[2]

\* A tweet has been rendered twice whose video the first rendering
\* reordered, with a collector that copied a file.
C36_RenderedAgainAfterReordering ==
    /\ applied = "toHTML twice"
    /\ output.json # input.json
    /\ \E n \in DOMAIN input.decisions : input.decisions[n] = "file"

(***************************************************************************)
(* The callback syncUserTimeline gives to collector.collect(): the tweet   *)
(* is rendered (the steps of tryAddURL above), toItem packs the post, the  *)
(* item is signed and PUT, the attachments of the collector are PUT, each  *)
(* read from its temp file, and collect() drops the collector.             *)
(***************************************************************************)
\* A toItem that looks at the collector's attachments before it renders.
FilesBeforeRendering(list) == <<>>

\* options.attachments.attachments.map(a => new File({hash, size, name}))
Files(list) ==
    [k \in 1..Len(list) |-> [name |-> list[k].name, hash |-> list[k].hash]]

\* The attachments PUT so far.
IsUpload(put) == put.what = "putAttachment"
Uploads == SelectSeq(puts, IsUpload)

PublishInit ==
    /\ upstream = <<>>
    /\ preexisting = [who \in Identities |-> NoTimestamp]
    /\ EngineIdle
    /\ CollectorUnused
    /\ StreamUnused
    /\ GetUnused
    /\ ApplyUnused
    /\ ParUnused
    /\ PublishUnused
    /\ ConfigUnused

\* tweet.toItem({attachments}) returns after rendering; serialize() and
\* privKey.sign(itemBytes).
PublishToItem ==
    /\ cpc = "render"
    /\ item' = [files |-> Files(collected)]
    /\ cpc' = "putItem"
    /\ UNCHANGED <<puts, renderVars, collected, tmpFiles, nextTmp, pending,
                   thrown, calls, fetches, syncVars, applyVars, parVars, configVars,
                   streamVars, getVars>>

\* await fbClient.putItem(userID, sig, itemBytes)
PublishPutItem ==
    /\ cpc = "putItem"
    /\ puts' = Append(puts, [what |-> "putItem", sig |-> item])
    /\ cpc' = IF collected = <<>> THEN "finally" ELSE "putAttachment"
    /\ UNCHANGED <<item, renderVars, collected, tmpFiles, nextTmp, pending,
                   thrown, calls, fetches, syncVars, applyVars, parVars, configVars,
                   streamVars, getVars>>

\* The next attachment of attachments.attachments: withReader opens its temp
\* file, which throws when the file is not there, and putAttachment sends
\* what is read from it.
PublishPutAttachment ==
    /\ cpc = "putAttachment"
    /\ LET attachment == collected[Len(Uploads) + 1]
           file == {f \in tmpFiles : f.id = attachment.tmpFile}
       IN  IF file = {}
           THEN /\ thrown' = OtherError("open")
                /\ cpc' = "finally"
                /\ puts' = puts
           ELSE /\ puts' = Append(puts,
                            [what |-> "putAttachment", sig |-> item,
                             name |-> attachment.name,
                             body |-> CHOOSE f \in file : TRUE])
                /\ cpc' = IF Len(Uploads) + 1 = Len(collected)
                          THEN "finally" ELSE "putAttachment"
                /\ thrown' = thrown
    /\ UNCHANGED <<item, renderVars, collected, tmpFiles, nextTmp, pending,
                   calls, fetches, syncVars, applyVars, parVars, configVars, streamVars,
                   getVars>>

\* putItem or putAttachment throws.
PublishPutFails ==
    /\ cpc \in {"putItem", "putAttachment"}
    /\ thrown' = OtherError("put")
    /\ cpc' = "finally"
    /\ UNCHANGED <<item, puts, renderVars, collected, tmpFiles, nextTmp,
                   pending, calls, fetches, syncVars, applyVars, parVars, configVars,
                   streamVars, getVars>>

PublishNext ==
    \/ Collect
    \/ Descend
    \/ TryAddURLNoOp
    \/ TryAddURL
    \/ FetchNotOk
    \/ FetchNoBody
    \/ FetchOk
    \/ DownloadDone
    \/ DownloadAbort
    \/ Add
    \/ PublishToItem
    \/ PublishPutItem
    \/ PublishPutAttachment
    \/ PublishPutFails
    \/ Drop

PublishSpec == PublishInit /\ [][PublishNext]_vars

\* C37: under a collecting scope the item is PUT before any attachment and
\* once; every attachment PUT carries the item's signature and the whole
\* bytes of a temp file that is there when it is read, so that no upload
\* fails to open its file; the files of the item's post are the name and
\* hash of the attachments collected by the rendering, in order; and when
\* the callback has returned, the attachments PUT are those, each once.
\* Nothing is PUT after the scope is released.
C37_ItemThenEachAttachmentOnce ==
    /\ [](scope = "Attachments"
          => /\ (item # Null /\ cpc # "closed")
                    => /\ Len(item.files) = Len(collected)
                       /\ \A k \in 1..Len(collected) :
                            /\ item.files[k].name = collected[k].name
                            /\ item.files[k].hash = collected[k].hash
             /\ \A i \in 1..Len(puts) :
                    /\ (puts[i].what = "putItem") = (i = 1)
                    /\ puts[i].sig = item
                    /\ puts[i].what = "putAttachment"
                        => /\ puts[i].body.whole
                           /\ puts[i].body.name = puts[i].name
                           /\ puts[i].body.hash = item.files[i - 1].hash
                           /\ puts[i].name = item.files[i - 1].name
             /\ thrown # OtherError("open")
             /\ (item # Null /\ thrown = Null /\ cpc \in {"finally", "closed"})
                    => Len(Uploads) = Len(item.files))
    /\ [][cpc = "closed" => puts' = puts]_vars

\* An item with two attachments has been PUT, and both attachments, from a
\* rendering that also met a duplicate, and the scope has been released.
C37_TwoAttachmentsUploaded ==
    /\ scope = "Attachments"
    /\ cpc = "closed"
    /\ thrown = Null
    /\ Len(Uploads) = 2
    /\ Len(calls) > 2

(***************************************************************************)
(* loadConfig on the timelines of a configuration file, and the timelines  *)
(* main() then syncs: the home timeline, then the user timelines in the    *)
(* order of the file.                                                      *)
(***************************************************************************)
\* User timelines in one configuration file.
MaxTimelines == 2

\* "?" is a string UserID.fromString does not parse.
UserIDs == {"A", "B", "C", "?"}

\* A timeline section: its userID, and the identity its password is the
\* private key of.
TimelineSections == [userID : UserIDs, password : UserIDs \ {"?"}]

\* A section that is not in the file.
Undefined == [undefined |-> TRUE]

RawConfigs ==
    [homeTimeline : {Undefined} \cup TimelineSections,
     userTimelines : {Undefined} \cup
        UNION {{[array |-> a] : a \in [1..n -> TimelineSections]}
               : n \in 0..MaxTimelines}]

\* requireUserID / requirePassword throw for the section.
SectionError(section) ==
    IF section.userID = "?" THEN "userID"
    ELSE IF section.password # section.userID THEN "password"
    ELSE "none"

\* A check that compares each userID with the one before it only.
UsedBefore(ids, k) == k > 1 /\ ids[k - 1] = ids[k]

\* usedUserIDs.has(userID), for the k-th userID checked.
UsedMoreThanOnce(ids, k) == \E j \in 1..(k - 1) : ids[j] = ids[k]

\* loadConfig: what it throws, or the timelines of the Config it returns.
LoadConfig(raw) ==
    LET home == raw.homeTimeline
        hasHome == home # Undefined
        hasUsers == raw.userTimelines # Undefined
        users == IF hasUsers THEN raw.userTimelines.array ELSE <<>>
        checked == (IF hasHome THEN <<home.userID>> ELSE <<>>)
                   \o (IF hasUsers THEN [k \in 1..Len(users) |-> users[k].userID]
                       ELSE <<>>)
        Thrown(what) == [threw |-> TRUE, error |-> what, timelines |-> <<>>]
    IN  IF hasHome /\ SectionError(home) # "none"
        THEN Thrown(SectionError(home))
        ELSE IF hasUsers /\ \E k \in 1..Len(users) : SectionError(users[k]) # "none"
        THEN Thrown("userTimelines")
        ELSE IF \E k \in 1..Len(checked) : UsedMoreThanOnce(checked, k)
        THEN Thrown("used more than once")
        ELSE IF ~hasHome /\ ~hasUsers
        THEN Thrown("nothing to do")
        ELSE [threw |-> FALSE, error |-> "none",
              timelines |->
                (IF hasHome THEN <<[timeline |-> "home", userID |-> home.userID]>>
                 ELSE <<>>)
                \o (IF hasUsers
                    THEN [k \in 1..Len(users) |->
                            [timeline |-> "user", userID |-> users[k].userID]]
                    ELSE <<>>)]

ConfigInit ==
    /\ upstream = <<>>
    /\ preexisting = [who \in Identities |-> NoTimestamp]
    /\ EngineIdle
    /\ CollectorUnused
    /\ StreamUnused
    /\ GetUnused
    /\ input \in RawConfigs
    /\ output = Null
    /\ applied = "none"
    /\ ParUnused
    /\ PublishUnused
    /\ ConfigUnused

\* const config = await loadConfig(options.config)
ApplyLoadConfig ==
    /\ applied = "none"
    /\ applied' = "loadConfig"
    /\ output' = LoadConfig(input)
    /\ UNCHANGED <<input, syncVars, collectVars, streamVars, getVars, parVars,
                   publishVars, configVars>>

\* syncHomeTimeline, or syncUserTimeline for the next timeline: it reads the
\* latest timestamp of the timeline's userID and writes the new items there.
SyncTimeline ==
    /\ applied = "loadConfig"
    /\ ~output.threw
    /\ Len(advanced) < Len(output.timelines)
    /\ advanced' = Append(advanced,
                          [place |-> Len(advanced) + 1,
                           userID |-> output.timelines[Len(advanced) + 1].userID])
    /\ UNCHANGED <<applyVars, syncVars, collectVars, streamVars, getVars,
                   parVars, publishVars>>

ConfigNext == ApplyLoadConfig \/ SyncTimeline

ConfigSpec == ConfigInit /\ [][ConfigNext]_vars

\* The userIDs of the timeline sections of the file, home first.
NamedUserIDs ==
    (IF input.homeTimeline = Undefined THEN <<>>
     ELSE <<input.homeTimeline.userID>>)
    \o (IF input.userTimelines = Undefined THEN <<>>
        ELSE [k \in 1..Len(input.userTimelines.array) |->
                input.userTimelines.array[k].userID])

\* C38: loadConfig throws for a file in which two timeline sections, the
\* home timeline's or a user timeline's, name the same userID, and in a run
\* whose configuration was loaded no two of the timelines synced write to
\* the same userID.
C38_DuplicateUserIDRejected ==
    applied = "loadConfig"
    => /\ (\E i, j \in 1..Len(NamedUserIDs) :
                i < j /\ NamedUserIDs[i] = NamedUserIDs[j])
            => output.threw
       /\ \A i, j \in 1..Len(advanced) :
            advanced[i].userID = advanced[j].userID => i = j

\* The home timeline and the second user timeline name the same userID, all
\* three sections being valid, and loadConfig has thrown.
C38_HomeAndSecondUserRejected ==
    /\ applied = "loadConfig"
    /\ input.homeTimeline # Undefined
    /\ input.userTimelines # Undefined
    /\ Len(input.userTimelines.array) = 2
    /\ input.homeTimeline.userID = "A"
    /\ input.userTimelines.array[1].userID = "B"
    /\ input.userTimelines.array[2].userID = "A"
    /\ output.error = "used more than once"

====
